---- MODULE Spec2Model ----
(***************************************************************************)
(* A model of the benchmark driver of linera-client (benchmark.rs):        *)
(* run_benchmark and the tasks it spawns (producers, pacing task, latency  *)
(* collector, metrics watcher, runtime control), and the histogram         *)
(* arithmetic of the health check.                                         *)
(***************************************************************************)
EXTENDS Integers, Sequences, FiniteSets, TLC

\* ------------------------------------------------------------------ bounds
MaxGroups == 2
MaxBps == 2
MaxQueue == 1
MaxSharesGroups == 4
MaxSharesBps == 8
NumValidators == 2
MaxCount == 2
MaxSum == 1
MaxTasks == 2
MaxBlocks == 3
MaxReplicas == 1
CommitteeSize == 4
MaxHeight == 2
MaxRound == 1
BuilderCount == 2
MaxRootIndex == 2
MaxBalance == 1
MaxAccounts == 3
MaxNumShardsLen == 2
MaxShards == 3
MaxInfoGroups == 2
MaxChainsPerGroup == 3
MaxTransactions == 2

\* ------------------------------------------------------------------ constants
PROXY_LATENCY_P99_THRESHOLD == 400
\* The quantile the health check asks for, in hundredths (0.99).
Quantile99 == 99
\* f64::INFINITY, above every finite bucket boundary.
Infinity == 1000000

\* ------------------------------------------------------------------ state
VARIABLES
    num_chain_groups,               \* argument of run_benchmark
    bps,                            \* argument of run_benchmark
    runtime_in_seconds,             \* "None" or "Some"
    health_check_endpoints,         \* "None" or "Some"
    shutdown_notifier,              \* the CancellationToken: TRUE once cancelled
    barrier,                        \* number of tasks that called barrier.wait()
    bps_counts,                     \* the per-group AtomicUsize counters
    bps_share,                      \* bps_share handed to each spawned producer
    bps_remainder,                  \* the local of run_benchmark's spawn loop
    producer,                       \* position of each run_benchmark_internal task
    ready_sent,                     \* readiness messages each producer has sent
    first_error,                    \* first Err in join_all's completion order
    bps_control,                    \* position of the pacing task
    swap_index,                     \* next counter the pacing task swaps
    current_bps_count,              \* the pacing task's running sum
    quantiles,                      \* position of the latency collector
    block_timings,                  \* messages in the block-timings channel
    timings_senders,                \* live senders of the block-timings channel
    metrics_watcher,                \* position of the metrics watcher task
    runtime_control,                \* position of the runtime control task
    chains_started,                 \* local of the runtime control task
    ready_channel,                  \* messages in the readiness channel
    ready_senders,                  \* live senders of the readiness channel
    main,                           \* position of run_benchmark itself
    result,                         \* what run_benchmark returned
    previous_histogram_snapshots,   \* the watcher's snapshot per validator
    health_index,                   \* validators_healthy: the next validator
    last_p99,                       \* validators_healthy: p99 per validator
    health_result,                  \* what validators_healthy returned last
    health_error,                   \* the error of that result, if it is an Err
    last_scrape,                    \* validators_healthy: the scrape of the last iteration
    hist_previous,                  \* diff_histograms: argument `previous`
    hist_current,                   \* diff_histograms: argument `current`
    hist_diff,                      \* diff_histograms: its result
    quant_buckets,                  \* compute_quantile: argument `buckets`
    quant_total_count,              \* compute_quantile: argument `total_count`
    quant_results,                  \* compute_quantile: its result per quantile
    fault_type,                     \* LocalValidator::fault_type
    worker_applied,                 \* the requests LocalValidator::state has applied
    next_request,                   \* the number of the next request the validator receives
    request,                        \* the request the validator handled last
    response,                       \* what the sender of that request received
    lock,                           \* the task holding the validator's MutexGuard, or 0
    task,                           \* the spawned task of each request
    client,                         \* the client future of each request
    blocks_readable,                \* the hashes read_confirmed_block can read
    blocks_from,                    \* read_confirmed_blocks_downward: argument `from`
    blocks_limit,                   \* read_confirmed_blocks_downward: argument `limit`
    blocks_result,                  \* read_confirmed_blocks_downward: its result
    next_block_height,              \* the chain's next block height on the worker
    current_round,                  \* chain manager: the current round
    locked_validated_certificate,   \* chain manager: the validated certificate it is locked on
    votes,                          \* the votes the manager has issued at this height
    confirmed_certificates,         \* the confirmed certificates each validator has applied
    certified,                      \* the validated certificates that exist in the network
    manager_request,                \* the request the worker handled last
    manager_result,                 \* the result of that request
    harness_found,                  \* check_that_validators_have_certificate: its result
    validator_clients,              \* TestBuilder: the fault type of each validator client
    admin_description,              \* TestBuilder: TRUE once the admin chain is described
    genesis_accounts,               \* TestBuilder: genesis_storage_builder.accounts
    validator_storages,             \* TestBuilder: the chains each validator's storage holds
    builder_call,                   \* TestBuilder: the call made last
    builder_result,                 \* TestBuilder: what that call returned
    shard_arguments,                \* generate_shard_configs: its arguments
    shard_configs,                  \* generate_shard_configs: its result
    server_config,                  \* ServerContext: shard, shards and protocol
    server_run,                     \* position of ServerContext::run
    join_set,                       \* the tasks of run's JoinSet
    server_shutdown,                \* run's CancellationToken: TRUE once cancelled
    server_result,                  \* what ServerContext::run returned
    block_info_arguments,           \* make_benchmark_block_info: its arguments
    blocks_infos                    \* make_benchmark_block_info: its result

confVars == <<num_chain_groups, bps, runtime_in_seconds, health_check_endpoints>>
prodVars == <<bps_counts, producer, ready_sent, first_error>>
spawnVars == <<bps_share, bps_remainder>>
paceVars == <<bps_control, swap_index, current_bps_count>>
collVars == <<quantiles, block_timings, timings_senders>>
rtVars == <<runtime_control, chains_started, ready_channel, ready_senders>>
mainVars == <<main, result>>
healthVars == <<previous_histogram_snapshots, health_index, last_p99, health_result,
                health_error, last_scrape>>
quantVars == <<quant_buckets, quant_total_count, quant_results>>
diffVars == <<hist_previous, hist_current, hist_diff>>
histVars == <<healthVars, diffVars, quantVars>>
validatorVars == <<fault_type, worker_applied, next_request, request, response>>
taskVars == <<lock, task, client>>
blocksVars == <<blocks_readable, blocks_from, blocks_limit, blocks_result>>
managerVars == <<next_block_height, current_round, locked_validated_certificate, votes,
                 confirmed_certificates, certified, manager_request, manager_result,
                 harness_found>>
builderVars == <<validator_clients, admin_description, genesis_accounts,
                 validator_storages, builder_call, builder_result>>
shardVars == <<shard_arguments, shard_configs>>
serverVars == <<server_config, server_run, join_set, server_shutdown, server_result>>
infoVars == <<block_info_arguments, blocks_infos>>
toolsVars == <<builderVars, shardVars, serverVars, infoVars>>
harnessVars == <<blocksVars, managerVars, toolsVars>>
benchVars == <<confVars, barrier, prodVars, spawnVars, paceVars, collVars, rtVars,
               mainVars>>
vars == <<confVars, shutdown_notifier, barrier, prodVars, spawnVars, paceVars,
          collVars, metrics_watcher, rtVars, mainVars, histVars, validatorVars,
          taskVars, harnessVars>>

Groups == 0 .. (num_chain_groups - 1)

RECURSIVE SumUpTo(_, _)
\* f[0] + ... + f[n - 1]
SumUpTo(f, n) == IF n = 0 THEN 0 ELSE f[n - 1] + SumUpTo(f, n - 1)

\* The stages of one block submission that can fail with `?`.
SubmissionStages ==
    {"pending_message_bundles", "submit_fast_block_proposal", "communicate_chain_updates"}

\* Results: of a producer task (first_error) and of run_benchmark (result).
NoResult == [kind |-> "None", group |-> -1, error |-> ""]
Ok == [kind |-> "Ok", group |-> -1, error |-> ""]
Err(g, e) == [kind |-> "Err", group |-> g, error |-> e]

\* A Result<HistogramSnapshot, BenchmarkError>: tag is "Ok" or the error.
Histogram(tag, buckets, count, sum) ==
    [tag |-> tag, buckets |-> buckets, count |-> count, sum |-> sum]

HistogramErr(error) == Histogram(error, << >>, 0, 0)

NoHistogram == HistogramErr("None")

\* The scrape of a loop iteration that has not run: no sample at all.
NoScrape == [buckets |-> << >>, count |-> 0, sum |-> 0]

\* A producer task is over: it returned Ok, returned Err, or was aborted.
Finished(g) == producer[g] \in {"done", "failed", "aborted"}

\* ------------------------------------------------------------------ Init
\* The state of run_benchmark when it reaches its spawn loop: the pacing task,
\* the latency collector and (if configured) the runtime control task are
\* spawned, and run_benchmark holds one sender of each channel.
\* The arguments of run_benchmark, drawn from bounded sets.
ConfInit(max_groups, max_bps, options) ==
    /\ num_chain_groups \in 1 .. max_groups
    /\ bps \in 0 .. max_bps
    /\ runtime_in_seconds \in options
    /\ health_check_endpoints \in options

TaskInit ==
    /\ shutdown_notifier = FALSE
    /\ barrier = 0
    /\ bps_counts = [g \in Groups |-> 0]
    /\ bps_share = [g \in Groups |-> 0]
    /\ bps_remainder = bps % num_chain_groups
    /\ producer = [g \in Groups |-> "unspawned"]
    /\ ready_sent = [g \in Groups |-> 0]
    /\ first_error = NoResult
    /\ bps_control = "barrier"
    /\ swap_index = 0
    /\ current_bps_count = 0
    /\ quantiles = "recv"
    /\ block_timings = 0
    /\ timings_senders = 1
    /\ metrics_watcher = "none"
    /\ runtime_control = IF runtime_in_seconds = "Some" THEN "recv" ELSE "none"
    /\ chains_started = 0
    /\ ready_channel = 0
    /\ ready_senders = IF runtime_in_seconds = "Some" THEN 1 ELSE 0
    /\ main = "spawn"
    /\ result = NoResult

\* compute_quantile has not been called.
QuantInit ==
    /\ quant_buckets = << >>
    /\ quant_total_count = 0
    /\ quant_results = << >>

\* A request a LocalValidatorClient is asked to handle: its number, its kind, what
\* the worker's full_certificate would return for it and what the worker's handler
\* would return for it.
Request(id, kind, full, outcome) ==
    [id |-> id, kind |-> kind, full |-> full, outcome |-> outcome]

NoRequest == Request(0, "none", "None", "None")

\* What the sender of a request receives, what the handling called on the worker,
\* and whether the worker applied the request to its chain state.
Reply(tag, error, worker_calls, applied) ==
    [tag |-> tag, error |-> error, worker_calls |-> worker_calls, applied |-> applied]

\* The response to a request, with the fault type it was handled under.
Response(id, fault, reply) == [id |-> id, fault |-> fault, reply |-> reply]

NoResponse == Response(0, "None", Reply("none", "None", {}, FALSE))

\* LocalValidatorClient::new: an honest validator that has received no request.
ValidatorIdle ==
    /\ fault_type = "Honest"
    /\ worker_applied = {}
    /\ next_request = 1
    /\ request = NoRequest
    /\ response = NoResponse

\* The tasks spawn_and_receive may spawn in a run, one per request.
TaskIds == 1 .. MaxTasks

\* A spawned task: its position, the request it handles, the Option its wrapper
\* returned, the fault types it has read, its result and what became of the send.
Task(pc, kind, full, outcome, option, seen, reply, delivery) ==
    [pc |-> pc, kind |-> kind, full |-> full, outcome |-> outcome, option |-> option,
     seen |-> seen, reply |-> reply, delivery |-> delivery]

NoTask ==
    Task("idle", "none", "None", "None", [called |-> FALSE, outcome |-> "None"], {},
         Reply("none", "None", {}, FALSE), "none")

\* No request has been issued: the validator's lock is free.
TasksIdle ==
    /\ lock = 0
    /\ task = [t \in TaskIds |-> NoTask]
    /\ client = [t \in TaskIds |-> "idle"]

\* The validators of the committee, which are the harness's validator_clients:
\* validator 1, whose chain manager is modelled, the replicas, whose confirmed chains
\* are modelled, and validators that are behind.
Nodes == 1 .. CommitteeSize

Replicas == 2 .. (1 + MaxReplicas)

\* A certificate: its kind, the height, round and block it certifies, and its signers.
Certificate(kind, height, round, block, signers) ==
    [kind |-> kind, height |-> height, round |-> round, block |-> block,
     signers |-> signers]

NoCertificate == Certificate("None", 0, 0, "None", {})

\* A vote of the validator.
Vote(kind, height, round, block) ==
    [kind |-> kind, height |-> height, round |-> round, block |-> block]

\* What check_that_validators_have_certificate returned for a block height: the last
\* certificate it found and the number of validators it found one on.
Found(tag, height, certificate, count) ==
    [tag |-> tag, height |-> height, certificate |-> certificate, count |-> count]

\* A new chain on every validator: height 0, round 0, no lock, no vote.
ManagerIdle ==
    /\ next_block_height = 0
    /\ current_round = 0
    /\ locked_validated_certificate = NoCertificate
    /\ votes = {}
    /\ confirmed_certificates = [v \in Nodes |-> << >>]
    /\ certified = {}
    /\ manager_request = NoCertificate
    /\ manager_result = "none"
    /\ harness_found = Found("none", 0, NoCertificate, 0)

\* What read_confirmed_blocks_downward returns: Ok(values) or the error of a read.
BlocksResult(tag, values) == [tag |-> tag, values |-> values]

\* read_confirmed_blocks_downward has not been called.
BlocksIdle ==
    /\ blocks_readable = {}
    /\ blocks_from = 0
    /\ blocks_limit = 0
    /\ blocks_result = BlocksResult("none", << >>)

\* A call on the TestBuilder and what it returned.
BuilderCall(op, index, balance) == [op |-> op, index |-> index, balance |-> balance]

NoBuilderCall == BuilderCall("None", 0, 0)

BuilderResult(tag, values) == [tag |-> tag, values |-> values]

\* No TestBuilder has been made.
BuilderIdle ==
    /\ validator_clients = << >>
    /\ admin_description = FALSE
    /\ genesis_accounts = << >>
    /\ validator_storages = << >>
    /\ builder_call = NoBuilderCall
    /\ builder_result = BuilderResult("none", << >>)

\* The result of generate_shard_configs: Ok(shards) or Err(error).
ShardsResult(tag, shards, error) == [tag |-> tag, shards |-> shards, error |-> error]

\* Option<String>::None.
NoString == <<"None">>

ShardArguments(num_shards, host, port, metrics_port) ==
    [num_shards |-> num_shards, host |-> host, port |-> port,
     metrics_port |-> metrics_port]

\* generate_shard_configs has not been called.
ShardsIdle ==
    /\ shard_arguments = ShardArguments(<< >>, << >>, << >>, NoString)
    /\ shard_configs = ShardsResult("none", << >>, "")

ServerConfig(shard, num_shards, protocol) ==
    [shard |-> shard, num_shards |-> num_shards, protocol |-> protocol]

\* Option<usize>::None.
NoShard == -1

\* No server has been configured.
ServerIdle ==
    /\ server_config = ServerConfig(NoShard, 0, "None")
    /\ server_run = "none"
    /\ join_set = << >>
    /\ server_shutdown = FALSE
    /\ server_result = "none"

BlockInfoArguments(benchmark_chains, transactions_per_block, fungible_application_id) ==
    [benchmark_chains |-> benchmark_chains,
     transactions_per_block |-> transactions_per_block,
     fungible_application_id |-> fungible_application_id]

\* The result of make_benchmark_block_info, or "none" before the call.
BlocksInfos(tag, infos) == [tag |-> tag, infos |-> infos]

\* make_benchmark_block_info has not been called.
InfoIdle ==
    /\ block_info_arguments = BlockInfoArguments(<< >>, 0, "None")
    /\ blocks_infos = BlocksInfos("none", << >>)

\* None of the stand-alone helpers has been called.
ToolsIdle == BuilderIdle /\ ShardsIdle /\ ServerIdle /\ InfoIdle

\* The test harness has done nothing.
HarnessIdle == BlocksIdle /\ ManagerIdle /\ ToolsIdle

\* No histogram has been scraped or compared yet.
HistInit ==
    /\ previous_histogram_snapshots = << >>
    /\ health_index = 0
    /\ last_p99 = << >>
    /\ health_result = "none"
    /\ health_error = "None"
    /\ last_scrape = NoScrape
    /\ hist_previous = NoHistogram
    /\ hist_current = NoHistogram
    /\ hist_diff = NoHistogram
    /\ QuantInit

Init ==
    ConfInit(MaxGroups, MaxBps, {"None", "Some"}) /\ TaskInit /\ HistInit /\ ValidatorIdle
    /\ TasksIdle /\ HarnessIdle

\* ------------------------------------------------------------------ run_benchmark
\* bps / num_chain_groups
bps_initial_share == bps \div num_chain_groups

\* The share the spawn loop gives the next producer, from the remainder left.
NextShare(remainder) ==
    IF remainder > 0 THEN bps_initial_share + 1 ELSE bps_initial_share

\* Variant of NextRemainder: the remainder is never decremented.
NextRemainderKept(remainder) == remainder

\* The remainder after handing out one share.
NextRemainder(remainder) == IF remainder > 0 THEN remainder - 1 ELSE remainder

\* The next chain_group_index of the spawn loop.
chain_group_index == Cardinality({g \in Groups : producer[g] # "unspawned"})

\* One iteration of the spawn loop: clone the senders, compute bps_share,
\* join_set.spawn the producer.
MainSpawn ==
    /\ main = "spawn"
    /\ chain_group_index < num_chain_groups
    /\ LET g == chain_group_index IN
        /\ bps_share' = [bps_share EXCEPT ![g] = NextShare(bps_remainder)]
        /\ bps_remainder' = NextRemainder(bps_remainder)
        /\ producer' = [producer EXCEPT ![g] = "barrier"]
        /\ timings_senders' = timings_senders + 1
        /\ ready_senders' = IF runtime_in_seconds = "Some"
                            THEN ready_senders + 1 ELSE ready_senders
        /\ main' = IF g + 1 = num_chain_groups THEN "metrics_watcher" ELSE "spawn"
    /\ UNCHANGED <<histVars, validatorVars, taskVars, harnessVars, confVars, shutdown_notifier, barrier, bps_counts, ready_sent,
                   first_error, paceVars, quantiles, block_timings, metrics_watcher,
                   runtime_control, chains_started, ready_channel, result>>

\* Variant of Dropped: the sender is kept alive.
Leaked(senders) == senders

\* The live senders of a channel after one of them is dropped.
Dropped(senders) == senders - 1

\* What run_benchmark drops when it returns: its sender of each channel (the
\* block-timings sender only if line 293 has not dropped it yet).
DropLocals(timings_held) ==
    /\ timings_senders' = IF timings_held THEN Dropped(timings_senders) ELSE timings_senders
    /\ ready_senders' = IF runtime_in_seconds = "Some"
                        THEN Dropped(ready_senders) ELSE ready_senders

\* Self::metrics_watcher(...).await?: without endpoints there is no watcher;
\* with endpoints the first scrape either succeeds and the watcher is spawned,
\* or fails and run_benchmark returns the error.
MainMetricsWatcher ==
    /\ main = "metrics_watcher"
    /\ \/ /\ health_check_endpoints = "None"
          /\ main' = "join_all"
          /\ UNCHANGED <<metrics_watcher, result, timings_senders, ready_senders>>
       \/ /\ health_check_endpoints = "Some"
          /\ main' = "join_all"
          /\ metrics_watcher' = "running"
          /\ UNCHANGED <<result, timings_senders, ready_senders>>
       \/ /\ health_check_endpoints = "Some"
          /\ main' = "returned"
          /\ result' = Err(-1, "scrape")
          /\ DropLocals(TRUE)
          /\ UNCHANGED metrics_watcher
    /\ UNCHANGED <<histVars, validatorVars, taskVars, harnessVars, confVars, shutdown_notifier, barrier, prodVars, spawnVars, paceVars,
                   quantiles, block_timings, runtime_control, chains_started,
                   ready_channel>>

\* join_set.join_all().await, then collect::<Result<..>>()?: waits for every
\* producer; the first Err in completion order, if any, is returned.
MainJoinAll ==
    /\ main = "join_all"
    /\ \A g \in Groups : producer[g] \in {"done", "failed"}
    /\ IF first_error = NoResult
       THEN /\ main' = "await_bps_control"
            /\ UNCHANGED <<result, timings_senders, ready_senders>>
       ELSE /\ main' = "returned"
            /\ result' = first_error
            /\ DropLocals(TRUE)
    /\ UNCHANGED <<histVars, validatorVars, taskVars, harnessVars, confVars, shutdown_notifier, barrier, prodVars, spawnVars, paceVars,
                   quantiles, block_timings, metrics_watcher, runtime_control,
                   chains_started, ready_channel>>

\* bps_control_task.await?
MainAwaitBpsControl ==
    /\ main = "await_bps_control"
    /\ bps_control = "done"
    /\ main' = "await_metrics_watcher"
    /\ UNCHANGED <<histVars, validatorVars, taskVars, harnessVars, confVars, shutdown_notifier, barrier, prodVars, spawnVars, paceVars,
                   collVars, metrics_watcher, rtVars, result>>

\* if let Some(metrics_watcher) { metrics_watcher.await?? }: the watcher itself
\* only returns Ok(()); the first `?` returns the JoinError of a panicked task.
MainAwaitMetricsWatcher ==
    /\ main = "await_metrics_watcher"
    /\ metrics_watcher \in {"none", "done", "panicked"}
    /\ IF metrics_watcher = "panicked"
       THEN /\ main' = "returned"
            /\ result' = Err(-1, "join")
            /\ DropLocals(TRUE)
       ELSE /\ main' = "await_runtime_control"
            /\ UNCHANGED <<result, timings_senders, ready_senders>>
    /\ UNCHANGED <<histVars, validatorVars, taskVars, harnessVars, confVars, shutdown_notifier, barrier, prodVars, spawnVars, paceVars,
                   quantiles, block_timings, metrics_watcher, runtime_control,
                   chains_started, ready_channel>>

\* if let Some(runtime_control_task) { runtime_control_task.await? }, then
\* drop(block_time_quantiles_sender).
MainAwaitRuntimeControl ==
    /\ main = "await_runtime_control"
    /\ runtime_control \in {"none", "done"}
    /\ main' = "await_quantiles"
    /\ timings_senders' = Dropped(timings_senders)
    /\ UNCHANGED <<histVars, validatorVars, taskVars, harnessVars, confVars, shutdown_notifier, barrier, prodVars, spawnVars, paceVars,
                   quantiles, block_timings, metrics_watcher, rtVars, result>>

\* block_time_quantiles_task.await??; Ok(())
MainAwaitQuantiles ==
    /\ main = "await_quantiles"
    /\ quantiles = "done"
    /\ main' = "returned"
    /\ result' = Ok
    /\ DropLocals(FALSE)
    /\ UNCHANGED <<histVars, validatorVars, taskVars, harnessVars, confVars, shutdown_notifier, barrier, prodVars, spawnVars, paceVars,
                   quantiles, block_timings, metrics_watcher, runtime_control,
                   chains_started, ready_channel>>

Main ==
    \/ MainSpawn
    \/ MainMetricsWatcher
    \/ MainJoinAll
    \/ MainAwaitBpsControl
    \/ MainAwaitMetricsWatcher
    \/ MainAwaitRuntimeControl
    \/ MainAwaitQuantiles

\* ------------------------------------------------------------------ producers
\* Variant of BarrierSize: the barrier counts the producers only.
BarrierOfProducers == num_chain_groups

\* Barrier::new(num_chain_groups + 1)
BarrierSize == num_chain_groups + 1

\* barrier.wait(): the task arrives at the barrier.
ProducerArrive(g) ==
    /\ producer[g] = "barrier"
    /\ barrier' = barrier + 1
    /\ producer' = [producer EXCEPT ![g] = "barrier_wait"]
    /\ UNCHANGED <<histVars, validatorVars, taskVars, harnessVars, confVars, shutdown_notifier, bps_counts, ready_sent, first_error,
                   spawnVars, paceVars, collVars, metrics_watcher, rtVars, mainVars>>

\* barrier.wait().await completes once all parties have arrived.
ProducerPassBarrier(g) ==
    /\ producer[g] = "barrier_wait"
    /\ barrier >= BarrierSize
    /\ producer' = [producer EXCEPT ![g] = "stagger"]
    /\ UNCHANGED <<histVars, validatorVars, taskVars, harnessVars, confVars, shutdown_notifier, barrier, bps_counts, ready_sent,
                   first_error, spawnVars, paceVars, collVars, metrics_watcher, rtVars,
                   mainVars>>

\* if let Some(delay) = delay_between_chain_groups_ms { time::sleep(..).await }:
\* the sleep of chain_group_index * delay, if there is one, elapses.
ProducerStagger(g) ==
    /\ producer[g] = "stagger"
    /\ producer' = [producer EXCEPT ![g] = "ready"]
    /\ UNCHANGED <<histVars, validatorVars, taskVars, harnessVars, confVars, shutdown_notifier, barrier, bps_counts, ready_sent,
                   first_error, spawnVars, paceVars, collVars, metrics_watcher, rtVars,
                   mainVars>>

\* if let Some(sender) = runtime_control_sender { sender.send(()).await? }: the
\* channel has capacity num_chain_groups, so the send never waits; the sender
\* clone is dropped at the end of the if-let.  (The receiver lives as long as a
\* producer still holds a sender, so the send does not fail.)
ProducerReady(g) ==
    /\ producer[g] = "ready"
    /\ producer' = [producer EXCEPT ![g] = "loop"]
    /\ IF runtime_in_seconds = "Some"
       THEN /\ ready_channel' = ready_channel + 1
            /\ ready_sent' = [ready_sent EXCEPT ![g] = @ + 1]
            /\ ready_senders' = Dropped(ready_senders)
       ELSE UNCHANGED <<ready_channel, ready_sent, ready_senders>>
    /\ UNCHANGED <<histVars, validatorVars, taskVars, harnessVars, confVars, shutdown_notifier, barrier, bps_counts, first_error,
                   spawnVars, paceVars, collVars, metrics_watcher, runtime_control,
                   chains_started, mainVars>>

\* Top of the producer's loop: if shutdown_notifier.is_cancelled() { break },
\* else start the next block submission.
ProducerLoop(g) ==
    /\ producer[g] = "loop"
    /\ IF shutdown_notifier
       THEN /\ producer' = [producer EXCEPT ![g] = "done"]
            /\ timings_senders' = Dropped(timings_senders)
       ELSE /\ producer' = [producer EXCEPT ![g] = "block"]
            /\ UNCHANGED timings_senders
    /\ UNCHANGED <<histVars, validatorVars, taskVars, harnessVars, confVars, shutdown_notifier, barrier, bps_counts, ready_sent,
                   first_error, spawnVars, paceVars, quantiles, block_timings,
                   metrics_watcher, rtVars, mainVars>>

\* pending_message_bundles, submit_fast_block_proposal or
\* communicate_chain_updates returns an error: `?` ends the task with it.
ProducerBlockFails(g, stage) ==
    /\ producer[g] = "block"
    /\ producer' = [producer EXCEPT ![g] = "failed"]
    /\ first_error' = IF first_error = NoResult THEN Err(g, stage) ELSE first_error
    /\ timings_senders' = Dropped(timings_senders)
    /\ UNCHANGED <<histVars, validatorVars, taskVars, harnessVars, confVars, shutdown_notifier, barrier, bps_counts, ready_sent,
                   spawnVars, paceVars, quantiles, block_timings, metrics_watcher,
                   rtVars, mainVars>>

\* The three calls succeed and the timings are sent to the collector (the
\* send fails, with a warning only, once the collector has dropped the receiver).
ProducerSubmitBlock(g) ==
    /\ producer[g] = "block"
    /\ quantiles = "recv" => block_timings < MaxQueue
    /\ producer' = [producer EXCEPT ![g] = "count"]
    /\ block_timings' = IF quantiles = "recv" THEN block_timings + 1 ELSE block_timings
    /\ UNCHANGED <<histVars, validatorVars, taskVars, harnessVars, confVars, shutdown_notifier, barrier, bps_counts, ready_sent,
                   first_error, spawnVars, paceVars, quantiles, timings_senders,
                   metrics_watcher, rtVars, mainVars>>

\* Variant of AfterCount: the producer waits only once it is over its share.
AfterCountStrict(count, share) == IF count > share THEN "notified" ELSE "loop"

\* Where the producer goes after fetch_add returned `count - 1`:
\* if current_bps_count >= bps { notifier.notified().await }
AfterCount(count, share) == IF count >= share THEN "notified" ELSE "loop"

\* let current_bps_count = bps_count.fetch_add(1, Relaxed) + 1
ProducerFetchAdd(g) ==
    /\ producer[g] = "count"
    /\ bps_counts' = [bps_counts EXCEPT ![g] = @ + 1]
    /\ producer' = [producer EXCEPT ![g] = AfterCount(bps_counts[g] + 1, bps_share[g])]
    /\ UNCHANGED <<histVars, validatorVars, taskVars, harnessVars, confVars, shutdown_notifier, barrier, ready_sent, first_error,
                   spawnVars, paceVars, collVars, metrics_watcher, rtVars, mainVars>>

\* notifier.notified(): the Notified future is created; from now on a
\* notify_waiters() wakes it.
ProducerNotified(g) ==
    /\ producer[g] = "notified"
    /\ producer' = [producer EXCEPT ![g] = "waiting"]
    /\ UNCHANGED <<histVars, validatorVars, taskVars, harnessVars, confVars, shutdown_notifier, barrier, bps_counts, ready_sent,
                   first_error, spawnVars, paceVars, collVars, metrics_watcher, rtVars,
                   mainVars>>

\* The points at which a producer task is suspended (or not yet polled).
Suspended(g) == producer[g] \in {"barrier", "barrier_wait", "stagger", "block", "waiting"}

\* run_benchmark returned while producers were still in its JoinSet: dropping
\* the JoinSet aborts them at their suspension point, dropping their senders.
ProducerAbort(g) ==
    /\ main = "returned"
    /\ Suspended(g)
    /\ producer' = [producer EXCEPT ![g] = "aborted"]
    /\ timings_senders' = Dropped(timings_senders)
    /\ ready_senders' = IF runtime_in_seconds = "Some" /\ ready_sent[g] = 0
                        THEN Dropped(ready_senders) ELSE ready_senders
    /\ UNCHANGED <<histVars, validatorVars, taskVars, harnessVars, confVars, shutdown_notifier, barrier, bps_counts, ready_sent,
                   first_error, spawnVars, paceVars, quantiles, block_timings,
                   metrics_watcher, runtime_control, chains_started, ready_channel,
                   mainVars>>

Producer(g) ==
    \/ ProducerArrive(g)
    \/ ProducerPassBarrier(g)
    \/ ProducerStagger(g)
    \/ ProducerReady(g)
    \/ ProducerLoop(g)
    \/ \E stage \in SubmissionStages : ProducerBlockFails(g, stage)
    \/ ProducerSubmitBlock(g)
    \/ ProducerFetchAdd(g)
    \/ ProducerNotified(g)
    \/ ProducerAbort(g)

\* ------------------------------------------------------------------ bps_control_task
\* barrier.wait()
BpsControlArrive ==
    /\ bps_control = "barrier"
    /\ barrier' = barrier + 1
    /\ bps_control' = "barrier_wait"
    /\ UNCHANGED <<histVars, validatorVars, taskVars, harnessVars, confVars, shutdown_notifier, prodVars, spawnVars, swap_index,
                   current_bps_count, collVars, metrics_watcher, rtVars, mainVars>>

\* barrier.wait().await completes.
BpsControlPassBarrier ==
    /\ bps_control = "barrier_wait"
    /\ barrier >= BarrierSize
    /\ bps_control' = "check"
    /\ UNCHANGED <<histVars, validatorVars, taskVars, harnessVars, confVars, shutdown_notifier, barrier, prodVars, spawnVars, swap_index,
                   current_bps_count, collVars, metrics_watcher, rtVars, mainVars>>

\* Top of the loop: if shutdown_notifier.is_cancelled() { break }; otherwise
\* one_second_interval.tick().await, after which the counters are swapped.
BpsControlCheck ==
    /\ bps_control = "check"
    /\ bps_control' = IF shutdown_notifier THEN "done" ELSE "swap"
    /\ UNCHANGED <<histVars, validatorVars, taskVars, harnessVars, confVars, shutdown_notifier, barrier, prodVars, spawnVars, swap_index,
                   current_bps_count, collVars, metrics_watcher, rtVars, mainVars>>

\* One element of bps_counts.iter().map(|count| count.swap(0, Relaxed)).sum()
\* Variant of Swapped: the counter is read and left as it is.
Loaded(count) == count

\* What count.swap(0, Ordering::Relaxed) leaves in the counter.
Swapped(count) == 0

BpsControlSwap ==
    /\ bps_control = "swap"
    /\ current_bps_count' = current_bps_count + bps_counts[swap_index]
    /\ bps_counts' = [bps_counts EXCEPT ![swap_index] = Swapped(bps_counts[swap_index])]
    /\ swap_index' = swap_index + 1
    /\ bps_control' = IF swap_index + 1 = num_chain_groups THEN "notify" ELSE "swap"
    /\ UNCHANGED <<histVars, validatorVars, taskVars, harnessVars, confVars, shutdown_notifier, barrier, producer, ready_sent,
                   first_error, spawnVars, collVars, metrics_watcher, rtVars, mainVars>>

\* The producers that notify_waiters() wakes: those whose Notified exists.
Woken(g) == producer[g] = "waiting"

\* notifier.notify_waiters(), then the achieved/failed log line of
\* current_bps_count, which is dead afterwards.
BpsControlNotify ==
    /\ bps_control = "notify"
    /\ producer' = [g \in Groups |-> IF Woken(g) THEN "loop" ELSE producer[g]]
    /\ bps_control' = "check"
    /\ swap_index' = 0
    /\ current_bps_count' = 0
    /\ UNCHANGED <<histVars, validatorVars, taskVars, harnessVars, confVars, shutdown_notifier, barrier, bps_counts, ready_sent,
                   first_error, spawnVars, collVars, metrics_watcher, rtVars, mainVars>>

BpsControl ==
    \/ BpsControlArrive
    \/ BpsControlPassBarrier
    \/ BpsControlCheck
    \/ BpsControlSwap
    \/ BpsControlNotify

\* ------------------------------------------------------------------ block_time_quantiles_task
\* recv() yields a message: break if the token is cancelled, else record it.
QuantilesRecv ==
    /\ quantiles = "recv"
    /\ block_timings > 0
    /\ IF shutdown_notifier
       THEN /\ quantiles' = "done"
            /\ block_timings' = 0
       ELSE /\ quantiles' = "recv"
            /\ block_timings' = block_timings - 1
    /\ UNCHANGED <<histVars, validatorVars, taskVars, harnessVars, confVars, shutdown_notifier, barrier, prodVars, spawnVars, paceVars,
                   timings_senders, metrics_watcher, rtVars, mainVars>>

\* recv() yields None: the channel is empty and every sender is dropped.
QuantilesRecvNone ==
    /\ quantiles = "recv"
    /\ block_timings = 0
    /\ timings_senders = 0
    /\ quantiles' = "done"
    /\ UNCHANGED <<histVars, validatorVars, taskVars, harnessVars, confVars, shutdown_notifier, barrier, prodVars, spawnVars, paceVars,
                   block_timings, timings_senders, metrics_watcher, rtVars, mainVars>>

Quantiles == QuantilesRecv \/ QuantilesRecvNone

\* ------------------------------------------------------------------ metrics_watcher
\* The outcomes of one health check: validators_healthy returns Ok(true),
\* Ok(false) or Err(_), or panics.
HealthOutcomes == {"Ok(true)", "Ok(false)", "Err", "panic"}

\* The body of the health_interval branch: on Err or Ok(false) cancel the token
\* and break; on Ok(true) keep looping.  A panic ends the task where it is.
WatcherReacts(outcome) ==
    IF outcome = "Ok(true)"
    THEN /\ metrics_watcher' = "running"
         /\ UNCHANGED shutdown_notifier
    ELSE IF outcome = "panic"
    THEN /\ metrics_watcher' = "panicked"
         /\ UNCHANGED shutdown_notifier
    ELSE /\ metrics_watcher' = "done"
         /\ shutdown_notifier' = TRUE

\* health_interval.tick(): one health check, its outcome left to the scraped
\* data (HealthCheck below computes it from the data).
MetricsWatcherHealthTick(outcome) ==
    /\ metrics_watcher = "running"
    /\ WatcherReacts(outcome)
    /\ UNCHANGED <<histVars, validatorVars, taskVars, harnessVars, confVars, barrier, prodVars, spawnVars, paceVars, collVars, rtVars,
                   mainVars>>

\* shutdown_interval.tick(): break if the token is cancelled.
MetricsWatcherShutdownTick ==
    /\ metrics_watcher = "running"
    /\ metrics_watcher' = IF shutdown_notifier THEN "done" ELSE "running"
    /\ UNCHANGED <<histVars, validatorVars, taskVars, harnessVars, confVars, shutdown_notifier, barrier, prodVars, spawnVars, paceVars,
                   collVars, rtVars, mainVars>>

MetricsWatcher ==
    \/ \E outcome \in HealthOutcomes : MetricsWatcherHealthTick(outcome)
    \/ MetricsWatcherShutdownTick

\* ------------------------------------------------------------------ runtime_control_task
\* Variant of AfterStarted: the loop ends at the first readiness message.
AfterStartedAny(started) == IF started >= 1 THEN "sleep" ELSE "recv"

\* The position after one more readiness message was counted.
AfterStarted(started) == IF started = num_chain_groups THEN "sleep" ELSE "recv"

\* runtime_control_receiver.recv() yields a message.
RuntimeControlRecv ==
    /\ runtime_control = "recv"
    /\ ready_channel > 0
    /\ ready_channel' = ready_channel - 1
    /\ chains_started' = chains_started + 1
    /\ runtime_control' = AfterStarted(chains_started + 1)
    /\ UNCHANGED <<histVars, validatorVars, taskVars, harnessVars, confVars, shutdown_notifier, barrier, prodVars, spawnVars, paceVars,
                   collVars, metrics_watcher, ready_senders, mainVars>>

\* recv() yields None (empty and every sender dropped): the while loop ends.
RuntimeControlRecvNone ==
    /\ runtime_control = "recv"
    /\ ready_channel = 0
    /\ ready_senders = 0
    /\ runtime_control' = "sleep"
    /\ UNCHANGED <<histVars, validatorVars, taskVars, harnessVars, confVars, shutdown_notifier, barrier, prodVars, spawnVars, paceVars,
                   collVars, metrics_watcher, chains_started, ready_channel,
                   ready_senders, mainVars>>

\* time::sleep(runtime_in_seconds) elapses; shutdown_notifier.cancel().
RuntimeControlElapsed ==
    /\ runtime_control = "sleep"
    /\ runtime_control' = "done"
    /\ shutdown_notifier' = TRUE
    /\ UNCHANGED <<histVars, validatorVars, taskVars, harnessVars, confVars, barrier, prodVars, spawnVars, paceVars, collVars,
                   metrics_watcher, chains_started, ready_channel, ready_senders,
                   mainVars>>

RuntimeControl ==
    \/ RuntimeControlRecv
    \/ RuntimeControlRecvNone
    \/ RuntimeControlElapsed

\* ------------------------------------------------------------------ shutdown signal
\* listen_for_shutdown_signals: SIGINT/SIGTERM cancels the token.
ShutdownSignal ==
    /\ ~shutdown_notifier
    /\ shutdown_notifier' = TRUE
    /\ UNCHANGED <<histVars, validatorVars, taskVars, harnessVars, confVars, barrier, prodVars, spawnVars, paceVars, collVars,
                   metrics_watcher, rtVars, mainVars>>

\* ------------------------------------------------------------------ specification
Next ==
    \/ Main
    \/ \E g \in Groups : Producer(g)
    \/ BpsControl
    \/ Quantiles
    \/ MetricsWatcher
    \/ RuntimeControl
    \/ ShutdownSignal

Spec == Init /\ [][Next]_vars

\* The spawn loop of run_benchmark alone, over a wider range of arguments.
SharesInit ==
    ConfInit(MaxSharesGroups, MaxSharesBps, {"None"}) /\ TaskInit /\ HistInit /\ ValidatorIdle
    /\ TasksIdle /\ HarnessIdle

SpecShares == SharesInit /\ [][MainSpawn]_vars

\* ------------------------------------------------------------------ histograms
HistogramCount(less_than, count) == [less_than |-> less_than, count |-> count]

RECURSIVE InsertBucket(_, _)
\* Insert b after the buckets of the sorted list that are not above it.
InsertBucket(sorted, b) ==
    IF sorted = << >> THEN <<b>>
    ELSE IF b.less_than < Head(sorted).less_than THEN <<b>> \o sorted
    ELSE <<Head(sorted)>> \o InsertBucket(Tail(sorted), b)

RECURSIVE SortBuckets(_)
\* buckets.sort_by(less_than): a stable sort.
SortBuckets(buckets) ==
    IF buckets = << >> THEN << >>
    ELSE InsertBucket(SortBuckets(SubSeq(buckets, 1, Len(buckets) - 1)),
                      buckets[Len(buckets)])

\* parse_histogram on the samples of a scrape: the buckets in the order of the
\* exposition, the _count and the _sum.  A scrape without the metric has no
\* bucket and is refused.
parse_histogram(scrape) ==
    IF scrape.buckets = << >>
    THEN HistogramErr("IncompleteHistogramData")
    ELSE Histogram("Ok", SortBuckets(scrape.buckets), scrape.count, scrape.sum)

\* (bound_before - bound_after).abs() > f64::EPSILON, on integer boundaries;
\* inf - inf is NaN, which compares false.
BoundsDiffer(bound_before, bound_after) == bound_before # bound_after

\* (cumulative_after - cumulative_before).max(0.0)
ClampedDiff(cumulative_after, cumulative_before) ==
    IF cumulative_after - cumulative_before > 0
    THEN cumulative_after - cumulative_before ELSE 0

\* The pairs previous.buckets.iter().zip(current.buckets.iter()) yields.
ZipLen(previous, current) ==
    IF Len(previous.buckets) < Len(current.buckets)
    THEN Len(previous.buckets) ELSE Len(current.buckets)

\* Variant of CountRegressed: the counts are not compared.
CountNeverRegressed(previous, current) == FALSE

\* current.count < previous.count
CountRegressed(previous, current) == current.count < previous.count

diff_histograms(previous, current) ==
    IF CountRegressed(previous, current)
    THEN HistogramErr("HistogramCountMismatch")
    ELSE IF \E i \in 1 .. ZipLen(previous, current) :
                BoundsDiffer(previous.buckets[i].less_than, current.buckets[i].less_than)
    THEN HistogramErr("BucketBoundariesDoNotMatch")
    ELSE Histogram("Ok",
                   [i \in 1 .. ZipLen(previous, current) |->
                       HistogramCount(current.buckets[i].less_than,
                                      ClampedDiff(current.buckets[i].count,
                                                  previous.buckets[i].count))],
                   current.count - previous.count,
                   current.sum - previous.sum)

\* A Result<f64, BenchmarkError>: tag is "Ok" or the error, the value is the
\* fraction num / den with den > 0; +inf is Infinity / 1.
Quantile(tag, num, den) == [tag |-> tag, num |-> num, den |-> den]

QuantileErr(error) == Quantile(error, 0, 1)

\* An f64 NaN: 0 / 0, which no comparison finds above or below anything.
NaN == Quantile("Ok", 0, 0)

\* Variant of Target: rounded down.
TargetFloor(total_count, quantile) == (quantile * total_count) \div 100

\* (quantile * total_count).ceil(), the quantile in hundredths
Target(total_count, quantile) == (quantile * total_count + 99) \div 100

\* Variant of Interpolate: interpolates down from the upper boundary.
InterpolateDown(bucket, target, prev_cumulative, prev_bound) ==
    LET bucket_count == bucket.count - prev_cumulative IN
    IF bucket.less_than = Infinity
    THEN IF target - prev_cumulative = 0 THEN NaN ELSE Quantile("Ok", Infinity, 1)
    ELSE Quantile("Ok",
                  bucket.less_than * bucket_count
                      - (bucket.less_than - prev_bound) * (target - prev_cumulative),
                  bucket_count)

\* prev_bound + (bucket.less_than - prev_bound) * fraction with
\* fraction = (target - prev_cumulative) / bucket_count: an infinite boundary
\* gives +inf when the fraction is positive and NaN (inf * 0) when it is 0.
Interpolate(bucket, target, prev_cumulative, prev_bound) ==
    LET bucket_count == bucket.count - prev_cumulative IN
    IF bucket.less_than = Infinity
    THEN IF target - prev_cumulative = 0 THEN NaN ELSE Quantile("Ok", Infinity, 1)
    ELSE Quantile("Ok",
                  prev_bound * bucket_count
                      + (bucket.less_than - prev_bound) * (target - prev_cumulative),
                  bucket_count)

\* Variant of EmptyBucket: the bucket count is not tested.
EmptyBucketIgnored(bucket, prev_cumulative) == FALSE

\* bucket_count == 0.0
EmptyBucket(bucket, prev_cumulative) == bucket.count - prev_cumulative = 0

RECURSIVE QuantileFrom(_, _, _, _, _)
\* The loop of compute_quantile from bucket i on.
QuantileFrom(buckets, i, target, prev_cumulative, prev_bound) ==
    IF i > Len(buckets) THEN QuantileErr("CouldNotComputeQuantile")
    ELSE IF buckets[i].count >= target
    THEN IF EmptyBucket(buckets[i], prev_cumulative)
         THEN QuantileErr("UnexpectedEmptyBucket")
         ELSE Interpolate(buckets[i], target, prev_cumulative, prev_bound)
    ELSE QuantileFrom(buckets, i + 1, target, buckets[i].count, buckets[i].less_than)

compute_quantile(buckets, total_count, quantile) ==
    IF total_count = 0 THEN QuantileErr("NoDataYetForP99Calculation")
    ELSE QuantileFrom(buckets, 1, Target(total_count, quantile), 0, 0)

\* p > bound, for p a successful quantile
Exceeds(p, bound) == p.num > bound * p.den

\* ------------------------------------------------------------------ validators_healthy
Validators == 0 .. (NumValidators - 1)

\* The p99 of a validator the current health check has not computed.
NotComputed == QuantileErr("None")

\* One iteration of the loop of validators_healthy, for a validator with the
\* snapshot `previous` and the scrape `scrape`: what the iteration does (step),
\* the p99 it computed and the snapshot it leaves for the validator.
Iteration(step, error, p99, snapshot) ==
    [step |-> step, error |-> error, p99 |-> p99, snapshot |-> snapshot]

\* Variant of AfterNoData: the scraped histogram is stored all the same.
AfterNoDataStored(previous, histogram) == histogram

\* The snapshot kept for a validator whose interval had no sample: `continue`
\* comes before the insert of line 606.
AfterNoData(previous, histogram) == previous

\* Variant of AfterHealthy: a healthy validator keeps its old snapshot.
AfterHealthyKept(previous, histogram) == previous

\* previous_histogram_snapshots.insert(metrics_address, histogram) at the end
\* of the iteration of a healthy validator.
AfterHealthy(previous, histogram) == histogram

CheckValidator(previous, scrape) ==
    LET histogram == parse_histogram(scrape)
        diff == diff_histograms(previous, histogram)
        p99 == compute_quantile(diff.buckets, diff.count, Quantile99)
    IN  IF histogram.tag # "Ok"
        THEN Iteration("Err", histogram.tag, NotComputed, previous)
        ELSE IF diff.tag # "Ok" THEN Iteration("Err", diff.tag, NotComputed, previous)
        ELSE IF p99.tag = "NoDataYetForP99Calculation"
        THEN Iteration("continue", "None", p99, AfterNoData(previous, histogram))
        ELSE IF p99.tag # "Ok" THEN Iteration("Err", p99.tag, p99, previous)
        \* diff.buckets[diff.buckets.len() - 2]: out of bounds with one bucket
        ELSE IF Len(diff.buckets) < 2 THEN Iteration("panic", "None", p99, previous)
        ELSE IF Exceeds(p99, PROXY_LATENCY_P99_THRESHOLD)
        THEN Iteration("Ok(false)", "None", p99, previous)
        ELSE Iteration("continue", "None", p99, AfterHealthy(previous, histogram))

\* health_interval.tick(), get_scrapes: a request that fails makes
\* validators_healthy return Err; otherwise the loop over the scrapes starts.
HealthTick(fetched) ==
    /\ metrics_watcher = "running"
    /\ last_p99' = [v \in Validators |-> NotComputed]
    /\ last_scrape' = NoScrape
    /\ IF fetched
       THEN /\ metrics_watcher' = "checking"
            /\ health_index' = 0
            /\ health_result' = "pending"
            /\ health_error' = "None"
            /\ UNCHANGED shutdown_notifier
       ELSE /\ health_result' = "Err"
            /\ health_error' = "Reqwest"
            /\ WatcherReacts("Err")
            /\ UNCHANGED health_index
    /\ UNCHANGED <<benchVars, validatorVars, taskVars, harnessVars, previous_histogram_snapshots, diffVars, quantVars>>

\* The iteration of the loop for the validator health_index, and after the
\* last one the return of Ok(true); the watcher then reacts to the result.
HealthCheck(scrape) ==
    /\ metrics_watcher = "checking"
    /\ LET v == health_index
           it == CheckValidator(previous_histogram_snapshots[v], scrape)
           outcome == IF it.step # "continue" THEN it.step
                      ELSE IF v + 1 = NumValidators THEN "Ok(true)"
                      ELSE "pending"
       IN  /\ last_p99' = [last_p99 EXCEPT ![v] = it.p99]
           /\ previous_histogram_snapshots' =
                  [previous_histogram_snapshots EXCEPT ![v] = it.snapshot]
           /\ health_result' = outcome
           /\ health_error' = it.error
           /\ last_scrape' = scrape
           /\ IF outcome = "pending"
              THEN /\ health_index' = v + 1
                   /\ UNCHANGED <<metrics_watcher, shutdown_notifier>>
              ELSE /\ WatcherReacts(outcome)
                   /\ UNCHANGED health_index
    /\ UNCHANGED <<benchVars, validatorVars, taskVars, harnessVars, diffVars, quantVars>>

\* The bucket boundaries of the latency histogram a proxy may expose, in the
\* order of the exposition.
Layouts ==
    { <<PROXY_LATENCY_P99_THRESHOLD, 2 * PROXY_LATENCY_P99_THRESHOLD, Infinity>>,
      <<PROXY_LATENCY_P99_THRESHOLD, Infinity>>,
      <<Infinity, PROXY_LATENCY_P99_THRESHOLD>>,
      <<Infinity>>,
      <<PROXY_LATENCY_P99_THRESHOLD>> }

\* Every bucket list over a layout, with counts up to MaxCount.
BucketLists(layout) ==
    { [i \in 1 .. Len(layout) |-> HistogramCount(layout[i], c[i])] :
          c \in [1 .. Len(layout) -> 0 .. MaxCount] }

\* The scrapes with the metric: any counts, any count, any sum.
AllScrapes ==
    { [buckets |-> b, count |-> n, sum |-> s] :
          b \in UNION {BucketLists(layout) : layout \in Layouts},
          n \in 0 .. MaxCount, s \in 0 .. MaxSum }

\* A scrape without the metric.
EmptyScrape == [buckets |-> << >>, count |-> 0, sum |-> 0]

\* The bucket counts are cumulative and the last one is the count.
Cumulative(h) ==
    /\ \A i \in 1 .. (Len(h.buckets) - 1) : h.buckets[i].count <= h.buckets[i + 1].count
    /\ h.buckets[Len(h.buckets)].count = h.count

\* What a Prometheus endpoint exposes: cumulative buckets.  The health check
\* never reads the sum, which is left at 0 here.
HealthScrapes ==
    { s \in AllScrapes : Cumulative(parse_histogram(s)) /\ s.sum = 0 } \cup {EmptyScrape}

\* The state of run_benchmark while the watcher runs: one producer is spawned,
\* run_benchmark waits in join_all, and metrics_watcher() has stored the first
\* snapshot of every validator.
HealthInit ==
    /\ ValidatorIdle /\ TasksIdle /\ HarnessIdle
    /\ num_chain_groups = 1
    /\ bps = 0
    /\ runtime_in_seconds = "None"
    /\ health_check_endpoints = "Some"
    /\ shutdown_notifier = FALSE
    /\ barrier = 0
    /\ bps_counts = [g \in Groups |-> 0]
    /\ bps_share = [g \in Groups |-> 0]
    /\ bps_remainder = 0
    /\ producer = [g \in Groups |-> "barrier"]
    /\ ready_sent = [g \in Groups |-> 0]
    /\ first_error = NoResult
    /\ bps_control = "barrier"
    /\ swap_index = 0
    /\ current_bps_count = 0
    /\ quantiles = "recv"
    /\ block_timings = 0
    /\ timings_senders = 2
    /\ metrics_watcher = "running"
    /\ runtime_control = "none"
    /\ chains_started = 0
    /\ ready_channel = 0
    /\ ready_senders = 0
    /\ main = "join_all"
    /\ result = NoResult
    /\ previous_histogram_snapshots \in
           [Validators -> {parse_histogram(s) : s \in HealthScrapes \ {EmptyScrape}}]
    /\ health_index = 0
    /\ last_p99 = [v \in Validators |-> NotComputed]
    /\ health_result = "none"
    /\ health_error = "None"
    /\ last_scrape = NoScrape
    /\ hist_previous = NoHistogram
    /\ hist_current = NoHistogram
    /\ hist_diff = NoHistogram
    /\ QuantInit

\* The watcher's shutdown tick and the shutdown signal, with the benchmark
\* tasks left where they are.
HealthNext ==
    \/ \E fetched \in BOOLEAN : HealthTick(fetched)
    \/ \E scrape \in HealthScrapes : HealthCheck(scrape)
    \/ MetricsWatcherShutdownTick
    \/ ShutdownSignal

SpecHealth == HealthInit /\ [][HealthNext]_vars

\* ------------------------------------------------------------------ diff_histograms alone
\* Any two snapshots parse_histogram returns.
DiffInit ==
    /\ ConfInit(1, 0, {"None"}) /\ TaskInit /\ ValidatorIdle /\ TasksIdle /\ HarnessIdle
    /\ previous_histogram_snapshots = << >>
    /\ health_index = 0
    /\ last_p99 = << >>
    /\ health_result = "none"
    /\ health_error = "None"
    /\ last_scrape = NoScrape
    /\ QuantInit
    /\ hist_previous \in {parse_histogram(s) : s \in AllScrapes}
    /\ hist_current \in {parse_histogram(s) : s \in AllScrapes}
    /\ hist_diff = NoHistogram

Diff ==
    /\ hist_diff = NoHistogram
    /\ hist_diff' = diff_histograms(hist_previous, hist_current)
    /\ UNCHANGED <<benchVars, validatorVars, taskVars, harnessVars, shutdown_notifier, metrics_watcher, healthVars,
                   hist_previous, hist_current, quantVars>>

SpecDiff == DiffInit /\ [][Diff]_vars

\* ------------------------------------------------------------------ compute_quantile alone
\* The quantiles asked for, in hundredths.
QuantileInputs == {0, 50, 90, 95, Quantile99}

\* Any sorted bucket list parse_histogram returns and any total count.
QuantileInit ==
    /\ ConfInit(1, 0, {"None"}) /\ TaskInit /\ ValidatorIdle /\ TasksIdle /\ HarnessIdle
    /\ previous_histogram_snapshots = << >>
    /\ health_index = 0
    /\ last_p99 = << >>
    /\ health_result = "none"
    /\ health_error = "None"
    /\ last_scrape = NoScrape
    /\ hist_previous = NoHistogram
    /\ hist_current = NoHistogram
    /\ hist_diff = NoHistogram
    /\ quant_buckets \in {parse_histogram(s).buckets : s \in AllScrapes}
    /\ quant_total_count \in 0 .. MaxCount
    /\ quant_results = << >>

ComputeQuantiles ==
    /\ quant_results = << >>
    /\ quant_results' = [q \in QuantileInputs |->
                            compute_quantile(quant_buckets, quant_total_count, q)]
    /\ UNCHANGED <<benchVars, validatorVars, taskVars, harnessVars, shutdown_notifier, metrics_watcher, healthVars, diffVars,
                   quant_buckets, quant_total_count>>

SpecQuantile == QuantileInit /\ [][ComputeQuantiles]_vars

\* ------------------------------------------------------------------ LocalValidatorClient
\* The requests one validator may receive in a run.
MaxRequests == 2

\* enum FaultType
FaultTypes ==
    {"Honest", "Offline", "OfflineWithInfo", "Malicious", "DontSendConfirmVote",
     "DontProcessValidated", "DontSendValidateVote"}

\* What a handler of the worker returns: Ok, the BlobsNotFound error, or another error.
WorkerOutcomes == {"Ok", "BlobsNotFound", "WorkerError"}

\* What the worker's full_certificate returns for a lite certificate: Either::Left with
\* a confirmed block certificate, Either::Right with a validated one, or an error.
FullCertificates == {"Confirmed", "Validated", "WorkerError"}

\* The Option a handler wrapper returns: None, or Some(result of the worker).
NotCalled == [called |-> FALSE, outcome |-> "None"]

Called(outcome) == [called |-> TRUE, outcome |-> outcome]

\* The reply that carries the worker's result: `map_err(Into::into)` keeps the error.
FromWorker(outcome, worker_calls) ==
    IF outcome = "Ok"
    THEN Reply("Ok", "None", worker_calls, TRUE)
    ELSE Reply("Err", outcome, worker_calls, FALSE)

\* Option::expect: the worker's result, or a panic of the spawned task on None.
Expect(option, worker_calls) ==
    IF option.called
    THEN FromWorker(option.outcome, worker_calls)
    ELSE Reply("panic", "expect", worker_calls, FALSE)

ClientIoError(error, worker_calls) ==
    Reply("Err", "ClientIoError(" \o error \o ")", worker_calls, FALSE)

\* The first arm of the match is never taken.
IsBlobsNotFoundNever(option) == FALSE

\* The first arm of the match on the wrapper's Option:
\* Some(Err(NodeError::BlobsNotFound(_))).
IsBlobsNotFound(option) == option = Called("BlobsNotFound")

\* The fault types whose block proposals never reach the worker.
ProposalIgnoredByOffline == {"Offline", "OfflineWithInfo"}

ProposalIgnoredBy == {"Offline", "OfflineWithInfo", "Malicious"}

handle_block_proposal(fault, outcome) ==
    IF fault \in ProposalIgnoredBy THEN NotCalled ELSE Called(outcome)

\* The `result` of do_handle_block_proposal: the match on the wrapper's Option and on
\* validator.fault_type as it is read after the wrapper returned.
ProposalResult(handle_block_proposal_result, fault) ==
    LET worker_calls ==
            IF handle_block_proposal_result.called THEN {"handle_block_proposal"} ELSE {}
    IN  IF IsBlobsNotFound(handle_block_proposal_result)
        THEN Expect(handle_block_proposal_result, worker_calls)
        ELSE CASE fault \in {"Offline", "OfflineWithInfo"} ->
                    ClientIoError("offline", worker_calls)
               [] fault = "Malicious" ->
                    Reply("Err", "ArithmeticError(Overflow)", worker_calls,
                          handle_block_proposal_result = Called("Ok"))
               [] fault = "DontSendValidateVote" ->
                    Reply("Err", "ClientIoError(refusing to validate)", worker_calls,
                          handle_block_proposal_result = Called("Ok"))
               [] OTHER -> Expect(handle_block_proposal_result, worker_calls)

do_handle_block_proposal(fault, outcome) ==
    ProposalResult(handle_block_proposal(fault, outcome), fault)

\* The fault types whose certificates never reach the worker.
CertificateIgnoredByRefusing == {"Offline", "OfflineWithInfo", "DontSendConfirmVote"}

CertificateIgnoredBy == {"Offline", "OfflineWithInfo"}

\* The guard of handle_certificate's first arm.
SkipsNothing(fault, kind) == FALSE

SkipsValidated(fault, kind) == fault = "DontProcessValidated" /\ kind = "Validated"

\* `kind` is T::KIND of the certificate: "Timeout", "Validated" or "Confirmed".
handle_certificate(fault, kind, outcome) ==
    CASE SkipsValidated(fault, kind) -> NotCalled
      [] fault \in CertificateIgnoredBy -> NotCalled
      [] OTHER -> Called(outcome)

\* The result of do_handle_certificate_internal: the match on the wrapper's Option and
\* on validator.fault_type as it is read after the wrapper returned. `called` are the
\* worker's methods the caller has called before.
CertificateResult(handle_certificate_result, fault, kind, called) ==
    LET worker_calls ==
            IF handle_certificate_result.called
            THEN called \cup {"fully_handle_certificate_with_notifications"}
            ELSE called
    IN  IF IsBlobsNotFound(handle_certificate_result)
        THEN Expect(handle_certificate_result, worker_calls)
        ELSE CASE fault \in {"DontSendConfirmVote", "DontProcessValidated"}
                    /\ kind = "Validated" ->
                    Reply("Err", "ClientIoError(refusing to confirm)", worker_calls,
                          handle_certificate_result = Called("Ok"))
               [] fault \in {"Offline", "OfflineWithInfo"} ->
                    ClientIoError("offline", worker_calls)
               [] OTHER -> Expect(handle_certificate_result, worker_calls)

do_handle_certificate_internal(fault, kind, outcome, called) ==
    CertificateResult(handle_certificate(fault, kind, outcome), fault, kind, called)

do_handle_certificate(fault, kind, outcome) ==
    do_handle_certificate_internal(fault, kind, outcome, {})

\* `full` is what validator.state.full_certificate(certificate) returns; the `?` returns
\* its error before the fault type is looked at.
do_handle_lite_certificate(fault, full, outcome) ==
    IF full = "WorkerError"
    THEN Reply("Err", "WorkerError", {"full_certificate"}, FALSE)
    ELSE do_handle_certificate_internal(fault, full, outcome, {"full_certificate"})

\* The branch do_handle_chain_info_query takes on validator.fault_type: the query
\* reaches the worker unless the validator is Offline.
ChainInfoOption(fault, outcome) ==
    IF fault = "Offline" THEN NotCalled ELSE Called(outcome)

\* The `result` of do_handle_chain_info_query; a query changes nothing in the worker.
QueryResult(option) ==
    IF option.called
    THEN [FromWorker(option.outcome, {"handle_chain_info_query"})
             EXCEPT !.applied = FALSE]
    ELSE ClientIoError("offline", {})

do_handle_chain_info_query(fault, outcome) ==
    QueryResult(ChainInfoOption(fault, outcome))

\* spawn_and_receive: the spawned task handles the request under the validator's lock,
\* the worker applies what it accepted, and the sender receives the result.
Receive(kind, full, outcome, reply) ==
    /\ next_request <= MaxRequests
    /\ request' = Request(next_request, kind, full, outcome)
    /\ response' = Response(next_request, fault_type, reply)
    /\ worker_applied' =
           IF reply.applied THEN worker_applied \cup {next_request} ELSE worker_applied
    /\ next_request' = next_request + 1
    /\ UNCHANGED <<fault_type, benchVars, shutdown_notifier, metrics_watcher, histVars,
                   taskVars, harnessVars>>

HandleBlockProposal ==
    \E outcome \in WorkerOutcomes :
        Receive("block_proposal", "None", outcome,
                do_handle_block_proposal(fault_type, outcome))

HandleLiteCertificate ==
    \E full \in FullCertificates :
        \E outcome \in (IF full = "WorkerError" THEN {"None"} ELSE WorkerOutcomes) :
            Receive("lite_certificate", full, outcome,
                    do_handle_lite_certificate(fault_type, full, outcome))

HandleTimeoutCertificate ==
    \E outcome \in WorkerOutcomes :
        Receive("timeout_certificate", "None", outcome,
                do_handle_certificate(fault_type, "Timeout", outcome))

HandleValidatedCertificate ==
    \E outcome \in WorkerOutcomes :
        Receive("validated_certificate", "None", outcome,
                do_handle_certificate(fault_type, "Validated", outcome))

HandleConfirmedCertificate ==
    \E outcome \in WorkerOutcomes :
        Receive("confirmed_certificate", "None", outcome,
                do_handle_certificate(fault_type, "Confirmed", outcome))

HandleChainInfoQuery ==
    \E outcome \in WorkerOutcomes :
        Receive("chain_info_query", "None", outcome,
                do_handle_chain_info_query(fault_type, outcome))

\* The guard of `self.client.lock().await`: the Mutex is free.
LockIgnored == TRUE

LockFree == lock = 0

\* set_fault_type takes the validator's lock for the assignment.
SetFaultType ==
    /\ LockFree
    /\ \E fault \in FaultTypes \ {fault_type} : fault_type' = fault
    /\ UNCHANGED <<worker_applied, next_request, request, response, benchVars,
                   shutdown_notifier, metrics_watcher, histVars, taskVars, harnessVars>>

ValidatorInit == ConfInit(1, 0, {"None"}) /\ TaskInit /\ HistInit /\ ValidatorIdle
    /\ TasksIdle /\ HarnessIdle

ValidatorNext ==
    \/ HandleBlockProposal
    \/ HandleLiteCertificate
    \/ HandleTimeoutCertificate
    \/ HandleValidatedCertificate
    \/ HandleConfirmedCertificate
    \/ HandleChainInfoQuery
    \/ SetFaultType

SpecValidator == ValidatorInit /\ [][ValidatorNext]_vars

\* ------------------------------------------------------------------ spawn_and_receive
\* The requests a client may issue: the kind, what full_certificate would return for a
\* lite certificate, and what the worker's handler would return.
Requests ==
    [kind : {"block_proposal", "timeout_certificate", "validated_certificate",
             "confirmed_certificate", "chain_info_query"},
     full : {"None"}, outcome : WorkerOutcomes]
    \cup [kind : {"lite_certificate"}, full : {"Confirmed", "Validated"},
          outcome : WorkerOutcomes]
    \cup [kind : {"lite_certificate"}, full : {"WorkerError"}, outcome : {"None"}]

\* T::KIND of the certificate the task handles.
CertificateKind(tk) ==
    CASE tk.kind = "timeout_certificate" -> "Timeout"
      [] tk.kind = "validated_certificate" -> "Validated"
      [] tk.kind = "confirmed_certificate" -> "Confirmed"
      [] OTHER -> tk.full

\* The worker's methods a do_handle_* method has called before its wrapper.
CalledBefore(tk) == IF tk.kind = "lite_certificate" THEN {"full_certificate"} ELSE {}

\* Dropping the client future drops the JoinHandle of tokio::spawn, which detaches the
\* task; an aborted task would stop where it is.
Aborted(tk) == [tk EXCEPT !.pc = "aborted"]

Detached(tk) == tk

\* spawn_and_receive: tokio::spawn(f(validator, sender)), then receiver.await.
Call(t) ==
    /\ client[t] = "idle"
    /\ \E r \in Requests :
          task' = [task EXCEPT ![t] = Task("lock", r.kind, r.full, r.outcome, NotCalled,
                                           {}, NoTask.reply, "none")]
    /\ client' = [client EXCEPT ![t] = "waiting"]
    /\ UNCHANGED <<lock, validatorVars, benchVars, shutdown_notifier, metrics_watcher,
                   histVars, harnessVars>>

\* The caller stops waiting: the future of spawn_and_receive is dropped.
DropClient(t) ==
    /\ client[t] = "waiting"
    /\ client' = [client EXCEPT ![t] = "dropped"]
    /\ task' = [task EXCEPT ![t] = Detached(task[t])]
    /\ UNCHANGED <<lock, validatorVars, benchVars, shutdown_notifier, metrics_watcher,
                   histVars, harnessVars>>

\* `self.client.lock().await` at the start of every do_handle_* method.
AcquireLock(t) ==
    /\ task[t].pc = "lock"
    /\ LockFree
    /\ lock' = t
    /\ task' = [task EXCEPT ![t].pc =
                   IF task[t].kind = "lite_certificate" THEN "full_certificate"
                   ELSE "handle"]
    /\ UNCHANGED <<client, validatorVars, benchVars, shutdown_notifier, metrics_watcher,
                   histVars, harnessVars>>

\* do_handle_lite_certificate: `validator.state.full_certificate(certificate).await?`.
FullCertificate(t) ==
    /\ task[t].pc = "full_certificate"
    /\ task' = [task EXCEPT ![t] =
                   IF task[t].full = "WorkerError"
                   THEN [@ EXCEPT !.pc = "unlock",
                                  !.reply = Reply("Err", "WorkerError",
                                                  {"full_certificate"}, FALSE)]
                   ELSE [@ EXCEPT !.pc = "handle"]]
    /\ UNCHANGED <<lock, client, validatorVars, benchVars, shutdown_notifier,
                   metrics_watcher, histVars, harnessVars>>

\* The wrapper reads validator.fault_type and, unless it returns None, calls the worker.
HandleRequest(t) ==
    /\ task[t].pc = "handle"
    /\ LET tk == task[t]
           option ==
               CASE tk.kind = "block_proposal" ->
                        handle_block_proposal(fault_type, tk.outcome)
                 [] tk.kind = "chain_info_query" ->
                        ChainInfoOption(fault_type, tk.outcome)
                 [] OTHER -> handle_certificate(fault_type, CertificateKind(tk),
                                                tk.outcome)
       IN  task' = [task EXCEPT ![t].option = option,
                                ![t].seen = @ \cup {fault_type},
                                ![t].pc = IF option.called THEN "worker" ELSE "match"]
    /\ UNCHANGED <<lock, client, validatorVars, benchVars, shutdown_notifier,
                   metrics_watcher, histVars, harnessVars>>

\* The worker's handler returns; it has applied the request if it accepted it.
WorkerReturns(t) ==
    /\ task[t].pc = "worker"
    /\ worker_applied' =
           IF task[t].outcome = "Ok" /\ task[t].kind # "chain_info_query"
           THEN worker_applied \cup {t}
           ELSE worker_applied
    /\ task' = [task EXCEPT ![t].pc = "match"]
    /\ UNCHANGED <<lock, client, fault_type, next_request, request, response, benchVars,
                   shutdown_notifier, metrics_watcher, histVars, harnessVars>>

\* The match on the wrapper's Option and on validator.fault_type that gives `result`.
\* In do_handle_lite_certificate the guard is dropped with the async block, before
\* sender.send; in the other methods it is dropped when the method returns.
MatchResult(t) ==
    /\ task[t].pc = "match"
    /\ LET tk == task[t]
           reply ==
               CASE tk.kind = "block_proposal" -> ProposalResult(tk.option, fault_type)
                 [] tk.kind = "chain_info_query" -> QueryResult(tk.option)
                 [] OTHER -> CertificateResult(tk.option, fault_type,
                                               CertificateKind(tk), CalledBefore(tk))
       IN  task' = [task EXCEPT ![t].reply = reply,
                                ![t].seen = IF tk.kind = "chain_info_query" THEN @
                                            ELSE @ \cup {fault_type},
                                ![t].pc = IF tk.kind = "lite_certificate" THEN "unlock"
                                          ELSE "send"]
    /\ UNCHANGED <<lock, client, validatorVars, benchVars, shutdown_notifier,
                   metrics_watcher, histVars, harnessVars>>

\* sender.send(result): it fails when the receiver was dropped with the client future,
\* and the task then logs "result could not be sent".
Send(t) ==
    /\ task[t].pc = "send"
    /\ task' = [task EXCEPT ![t].delivery =
                                IF client[t] = "waiting" THEN "sent" ELSE "failed",
                            ![t].pc = IF task[t].kind = "lite_certificate" THEN "done"
                                      ELSE "unlock"]
    /\ client' = [client EXCEPT ![t] = IF @ = "waiting" THEN "received" ELSE @]
    /\ UNCHANGED <<lock, validatorVars, benchVars, shutdown_notifier, metrics_watcher,
                   histVars, harnessVars>>

\* The MutexGuard is dropped.
Unlock(t) ==
    /\ task[t].pc = "unlock"
    /\ lock' = 0
    /\ task' = [task EXCEPT ![t].pc = IF task[t].kind = "lite_certificate" THEN "send"
                                      ELSE "done"]
    /\ UNCHANGED <<client, validatorVars, benchVars, shutdown_notifier, metrics_watcher,
                   histVars, harnessVars>>

\* One step of the spawned task.
TaskStep(t) ==
    \/ AcquireLock(t)
    \/ FullCertificate(t)
    \/ HandleRequest(t)
    \/ WorkerReturns(t)
    \/ MatchResult(t)
    \/ Send(t)
    \/ Unlock(t)

TasksNext ==
    \/ \E t \in TaskIds : Call(t) \/ DropClient(t) \/ TaskStep(t)
    \/ SetFaultType

SpecTasks == ValidatorInit /\ [][TasksNext]_vars

\* ------------------------------------------------------------------ read_confirmed_blocks_downward
\* The hashes of the confirmed blocks of one chain, lowest block first, and the value of
\* Option::None.
BlockHashes == 1 .. MaxBlocks

NoHash == 0

\* The confirmed block stored under a hash: the block at height hash - 1, whose header
\* names the block below it, or None at height 0.
ConfirmedBlock(hash) ==
    [hash |-> hash, height |-> hash - 1,
     previous_block_hash |-> IF hash = 1 THEN NoHash ELSE hash - 1]

\* `self.read_confirmed_block(next_hash).await?` on a block that cannot be read.
ReadTruncates(values) == BlocksResult("Ok", values)

ReadFails(values) == BlocksResult("Err", << >>)

RECURSIVE ReadDownward(_, _, _, _)
\* The loop of read_confirmed_blocks_downward with `remaining` iterations to go.
ReadDownward(readable, hash, remaining, values) ==
    IF remaining = 0 \/ hash = NoHash
    THEN BlocksResult("Ok", values)
    ELSE IF hash \notin readable
         THEN ReadFails(values)
         ELSE LET value == ConfirmedBlock(hash)
              IN  ReadDownward(readable, value.previous_block_hash, remaining - 1,
                               Append(values, value))

read_confirmed_blocks_downward(readable, from, limit) ==
    ReadDownward(readable, from, limit, << >>)

\* Any storage, any starting block and any limit.
BlocksInit ==
    /\ ConfInit(1, 0, {"None"}) /\ TaskInit /\ HistInit /\ ValidatorIdle /\ TasksIdle
    /\ ManagerIdle /\ ToolsIdle
    /\ blocks_readable \in SUBSET BlockHashes
    /\ blocks_from \in BlockHashes
    /\ blocks_limit \in 0 .. (MaxBlocks + 1)
    /\ blocks_result = BlocksResult("none", << >>)

ReadConfirmedBlocksDownward ==
    /\ blocks_result.tag = "none"
    /\ blocks_result' =
           read_confirmed_blocks_downward(blocks_readable, blocks_from, blocks_limit)
    /\ UNCHANGED <<blocks_readable, blocks_from, blocks_limit, benchVars,
                   shutdown_notifier, metrics_watcher, histVars, validatorVars, taskVars,
                   managerVars, toolsVars>>

SpecBlocks == BlocksInit /\ [][ReadConfirmedBlocksDownward]_vars

\* ------------------------------------------------------------------ chain manager and worker
\* The blocks a proposer may propose at a height.
BlockNames == {"B1", "B2"}

\* The epoch of the blocks at a height: the block at height 0 changes the committee.
EpochAt(height) == IF height = 0 THEN 0 ELSE 1

\* The voting weight of a validator in the committee of an epoch: Committee::make_simple
\* gives every validator weight 1; the later committee gives the last validator more.
Weight(epoch, v) == IF epoch = 1 /\ v = CommitteeSize THEN CommitteeSize - 1 ELSE 1

RECURSIVE TotalWeight(_, _)
\* The sum of the weights of a set of validators.
TotalWeight(epoch, validators) ==
    IF validators = {} THEN 0
    ELSE LET v == CHOOSE x \in validators : TRUE
         IN  Weight(epoch, v) + TotalWeight(epoch, validators \ {v})

\* The quorum threshold: the signers' weight is more than 2/3 of the committee's.
HasTwoThirds(epoch, signers) ==
    3 * TotalWeight(epoch, signers) >= 2 * TotalWeight(epoch, Nodes)

HasQuorum(epoch, signers) ==
    3 * TotalWeight(epoch, signers) > 2 * TotalWeight(epoch, Nodes)

\* certificate.check(committee) in the worker: the committee of the block's epoch.
CheckCertificate(certificate) ==
    HasQuorum(EpochAt(certificate.height), certificate.signers)

\* The lock rule for a proposal: no locked certificate exists, or the proposal's block
\* is the locked block.
LockAllowsAny(locked, block) == TRUE

LockAllows(locked, block) == locked = NoCertificate \/ block = locked.block

\* The validator has already issued a vote of this kind in this round of this height for
\* another block.
VotedNever(kind, height, round, block) == FALSE

VotedOtherwise(kind, height, round, block) ==
    \E v \in votes :
        /\ v.kind = kind /\ v.height = height /\ v.round = round
        /\ v.block # block

\* The height rule for a confirmed certificate: it is the chain's next block.
AtOrAboveNextHeight(height, next) == height >= next

AtNextHeight(height, next) == height = next

\* The worker answers the request and changes nothing; of a refused request only the
\* kind and the height are kept.
Reject(handled, error) ==
    /\ manager_request' = Certificate(handled.kind, handled.height, 0, "None", {})
    /\ manager_result' = error
    /\ UNCHANGED <<next_block_height, current_round, locked_validated_certificate, votes,
                   confirmed_certificates, certified>>

\* WorkerState::handle_block_proposal for BlockProposal(block, round): a validate vote
\* for a proposal of the current round at the next height that the lock allows, unless
\* the validator has voted for another block in this round.
WorkerHandleBlockProposal ==
    \E height \in 0 .. (MaxHeight - 1), round \in 0 .. MaxRound, block \in BlockNames :
        LET proposal == Certificate("Proposal", height, round, block, {})
        IN  /\ CASE height # next_block_height -> Reject(proposal, "Err(height)")
                 [] round # current_round -> Reject(proposal, "Err(round)")
                 [] ~LockAllows(locked_validated_certificate, block) ->
                        Reject(proposal, "Err(locked)")
                 [] VotedOtherwise("validate", height, round, block) ->
                        Reject(proposal, "Err(voted)")
                 [] OTHER ->
                        /\ votes' = votes \cup {Vote("validate", height, round, block)}
                        /\ manager_request' = proposal
                        /\ manager_result' = "Ok"
                        /\ UNCHANGED <<next_block_height, current_round,
                                       locked_validated_certificate,
                                       confirmed_certificates, certified>>
            /\ UNCHANGED <<harness_found, blocksVars, toolsVars, benchVars, shutdown_notifier,
                           metrics_watcher, histVars, validatorVars, taskVars>>

\* A certificate as the network knows it: without its signatures, and for a confirmed
\* certificate without the round, since a height has one confirmed block.
Unsigned(certificate) ==
    [certificate EXCEPT !.signers = {},
                        !.round = IF certificate.kind = "Confirmed" THEN 0 ELSE @]

\* The certificates a quorum can have signed, given those that exist: at most one block
\* is validated in a round of a height, and at most one block is confirmed at a height.
Admissible(certificate) ==
    CheckCertificate(certificate) =>
        \A c \in certified :
            /\ (/\ certificate.kind = "Validated" /\ c.kind = "Validated"
                /\ c.height = certificate.height /\ c.round = certificate.round)
                  => c.block = certificate.block
            /\ (/\ certificate.kind = "Confirmed" /\ c.kind = "Confirmed"
                /\ c.height = certificate.height)
                  => c.block = certificate.block

\* The sets of validators that sign the certificates the worker is given: too few for
\* any committee, a quorum of the first committee only, the two validators that hold
\* two thirds of the later committee and no more, and everyone.
SignerSets == {{1, 2}, Nodes \ {CommitteeSize}, {1, CommitteeSize}, Nodes}

\* The certificates of a kind the worker may be given.
Certificates(kind, blocks) ==
    {c \in [kind : {kind}, height : 0 .. (MaxHeight - 1), round : 0 .. MaxRound,
            block : blocks, signers : SignerSets] : Admissible(c)}

\* What the handlers of validator 1 leave alone besides the chain manager.
ManagerFrame ==
    UNCHANGED <<harness_found, blocksVars, toolsVars, benchVars, shutdown_notifier,
                metrics_watcher, histVars, validatorVars, taskVars>>

\* WorkerState::handle_certificate for ValidatedCertificate(block, round): with a quorum
\* and a round not below the current one, the manager enters the round, locks on the
\* certificate and issues a confirm vote.
WorkerHandleValidatedCertificate ==
    \E certificate \in Certificates("Validated", BlockNames) :
        /\ IF ~CheckCertificate(certificate)
           THEN Reject(certificate, "Err(quorum)")
           ELSE IF certificate.height # next_block_height
           THEN Reject(certificate, "Err(height)")
           ELSE IF certificate.round < current_round
           THEN Reject(certificate, "Err(round)")
           ELSE IF VotedOtherwise("confirm", certificate.height, certificate.round,
                                  certificate.block)
           THEN Reject(certificate, "Err(voted)")
           ELSE /\ current_round' = certificate.round
                /\ locked_validated_certificate' = Unsigned(certificate)
                /\ votes' = votes \cup {Vote("confirm", certificate.height,
                                             certificate.round, certificate.block)}
                /\ certified' = certified \cup {Unsigned(certificate)}
                /\ manager_request' = certificate
                /\ manager_result' = "Ok"
                /\ UNCHANGED <<next_block_height, confirmed_certificates>>
        /\ ManagerFrame

\* WorkerState::handle_certificate for ConfirmedCertificate(block, round): with a quorum
\* and at the chain's next height the block is committed, the height is bumped and the
\* round state is cleared; a certificate below the next height is already applied, and
\* one above it is refused until the missing blocks are supplied.
WorkerHandleConfirmedCertificate ==
    \E certificate \in Certificates("Confirmed", BlockNames) :
        /\ IF ~CheckCertificate(certificate)
           THEN Reject(certificate, "Err(quorum)")
           ELSE IF certificate.height < next_block_height
           THEN Reject(certificate, "Ok(already applied)")
           ELSE IF ~AtNextHeight(certificate.height, next_block_height)
           THEN Reject(certificate, "Err(missing blocks)")
           ELSE /\ confirmed_certificates' =
                       [confirmed_certificates EXCEPT ![1] = Append(@, certificate)]
                /\ next_block_height' = certificate.height + 1
                /\ current_round' = 0
                /\ locked_validated_certificate' = NoCertificate
                /\ votes' = {}
                /\ certified' = {c \in certified : c.kind = "Confirmed"}
                                     \cup {Unsigned(certificate)}
                /\ manager_request' = certificate
                /\ manager_result' = "Ok"
        /\ ManagerFrame

\* WorkerState::handle_certificate for TimeoutCertificate(round): with a quorum the
\* manager advances to the next round.
WorkerHandleTimeoutCertificate ==
    \E certificate \in Certificates("Timeout", {"None"}) :
        /\ certificate.round < MaxRound
        /\ IF ~CheckCertificate(certificate)
           THEN Reject(certificate, "Err(quorum)")
           ELSE IF certificate.height # next_block_height
           THEN Reject(certificate, "Err(height)")
           ELSE IF certificate.round < current_round
           THEN Reject(certificate, "Err(round)")
           ELSE /\ current_round' = certificate.round + 1
                /\ manager_request' = certificate
                /\ manager_result' = "Ok"
                /\ UNCHANGED <<next_block_height, locked_validated_certificate, votes,
                               confirmed_certificates, certified>>
        /\ ManagerFrame

\* The worker of another validator applies a confirmed certificate to its chain.
ReplicaHandleConfirmedCertificate ==
    \E v \in Replicas, certificate \in Certificates("Confirmed", BlockNames) :
        /\ certificate.round = 0
        /\ CheckCertificate(certificate)
        /\ AtNextHeight(certificate.height, Len(confirmed_certificates[v]))
        /\ confirmed_certificates' =
               [confirmed_certificates EXCEPT ![v] = Append(@, certificate)]
        /\ certified' = certified \cup {Unsigned(certificate)}
        /\ UNCHANGED <<next_block_height, current_round, locked_validated_certificate,
                       votes, manager_request, manager_result>>
        /\ ManagerFrame

RECURSIVE HarnessLoop(_, _, _, _, _)
\* The loop of check_that_validators_have_certificate from validator v on. `answering`
\* are the validators whose handle_chain_info_query succeeds with a response that
\* checks and whose download_certificate succeeds.
HarnessLoop(v, block_height, answering, count, certificate) ==
    IF v > CommitteeSize
    THEN Found("Ok", block_height, certificate, count)
    ELSE IF v \in answering /\ Len(confirmed_certificates[v]) > block_height
         THEN LET cert == confirmed_certificates[v][block_height + 1]
              IN  IF cert.height # block_height
                  THEN HarnessLoop(v + 1, block_height, answering, count,
                                   certificate)
                  ELSE IF ~HasQuorum(0, cert.signers)
                  THEN Found("panic", block_height, certificate, count)
                  ELSE HarnessLoop(v + 1, block_height, answering,
                                   count + 1, cert)
         ELSE HarnessLoop(v + 1, block_height, answering, count,
                          certificate)

check_that_validators_have_certificate(block_height, target_count, answering) ==
    LET found == HarnessLoop(1, block_height, answering, 0, NoCertificate)
    IN  IF found.tag = "Ok" /\ found.count < target_count
        THEN [found EXCEPT !.tag = "panic"]
        ELSE found

\* The harness looks for the certificate of one block height, once.
CheckThatValidatorsHaveCertificate ==
    /\ harness_found.tag = "none"
    /\ \E block_height \in 0 .. (MaxHeight - 1), target_count \in 0 .. (1 + MaxReplicas),
          answering \in SUBSET (1 .. (1 + MaxReplicas)) :
          harness_found' = check_that_validators_have_certificate(
                               block_height, target_count, answering)
    /\ UNCHANGED <<next_block_height, current_round, locked_validated_certificate, votes,
                   confirmed_certificates, certified, manager_request, manager_result,
                   blocksVars, toolsVars, benchVars, shutdown_notifier, metrics_watcher, histVars,
                   validatorVars, taskVars>>

ManagerInit ==
    /\ ConfInit(1, 0, {"None"}) /\ TaskInit /\ HistInit /\ ValidatorIdle /\ TasksIdle
    /\ HarnessIdle

\* One validator's worker and chain manager.
ManagerNext ==
    \/ WorkerHandleBlockProposal
    \/ WorkerHandleValidatedCertificate
    \/ WorkerHandleConfirmedCertificate
    \/ WorkerHandleTimeoutCertificate

SpecManager == ManagerInit /\ [][ManagerNext]_vars

\* The certificates the validators accept, and the harness that looks for them when the
\* validators have handled their certificates.
QuorumNext ==
    \/ /\ harness_found.tag = "none"
       /\ \/ WorkerHandleValidatedCertificate
          \/ WorkerHandleConfirmedCertificate
          \/ WorkerHandleTimeoutCertificate
          \/ ReplicaHandleConfirmedCertificate
    \/ CheckThatValidatorsHaveCertificate

SpecQuorum == ManagerInit /\ [][QuorumNext]_vars

\* ------------------------------------------------------------------ properties
\* The positions of a producer after it has left the barrier.
PastBarrier == {"stagger", "ready", "loop", "block", "count", "notified", "waiting",
                "done", "failed"}

\* The positions of a producer inside its submission loop.
InLoop == {"loop", "block", "count", "notified", "waiting", "done", "failed"}

\* C1: the blocks completed by all producers between two consecutive resets of
\* their counters, which is the sum the pacing task has once it swapped every
\* counter, are at most bps + num_chain_groups.
C1_PacingBound ==
    bps_control = "notify" => current_bps_count <= bps + num_chain_groups

\* C2: once the token is cancelled the benchmark is never stuck: either
\* run_benchmark has returned or some task can still take a step.
C2_TerminatesAfterCancel ==
    shutdown_notifier => (main = "returned" \/ ENABLED Next)

\* C3: when run_benchmark returns the error of a failed block submission, the
\* token has been cancelled.
C3_ErrorCancelsToken ==
    (result.kind = "Err" /\ result.group >= 0) => shutdown_notifier

\* C4: the shares handed out sum to bps, each is floor(bps / num_chain_groups)
\* or one more, and exactly the first bps mod num_chain_groups groups get the
\* extra one.
C4_SharesSumToBps ==
    /\ \A g \in Groups : producer[g] # "unspawned" =>
          bps_share[g] = (bps \div num_chain_groups)
                         + (IF g < bps % num_chain_groups THEN 1 ELSE 0)
    /\ main # "spawn" => SumUpTo(bps_share, num_chain_groups) = bps

C4_Witness ==
    /\ main # "spawn"
    /\ num_chain_groups = 3
    /\ bps = 5
    /\ bps_share[0] = 2 /\ bps_share[2] = 1

\* C5: a producer whose counter reached its share when it counted a block
\* goes on to await the notifier, and from there it reaches the top of its
\* loop again only in the step in which the pacing task calls notify_waiters.
C5_WaitsForNotification ==
    [][\A g \in Groups :
        /\ (producer[g] = "count" /\ producer'[g] # "count"
              /\ bps_counts'[g] >= bps_share[g]) => producer'[g] = "notified"
        /\ (producer[g] \in {"notified", "waiting"}
              /\ producer'[g] \notin {"notified", "waiting", "aborted"})
           => (producer'[g] = "loop" /\ bps_control = "notify" /\ bps_control' = "check")
      ]_vars

C5_Witness ==
    \E g \in Groups :
        /\ producer[g] = "waiting"
        /\ bps_share[g] >= 1
        /\ bps_counts[g] >= bps_share[g]
        /\ bps_control = "notify"

\* C6: no producer is past the barrier, and the pacing task neither, before
\* all num_chain_groups producers and the pacing task have arrived at it.
C6_BarrierBeforeLoad ==
    (\/ \E g \in Groups : producer[g] \in PastBarrier \/ bps_counts[g] > 0
     \/ bps_control \in {"check", "swap", "notify", "done"})
    => barrier = num_chain_groups + 1

C6_Witness ==
    /\ num_chain_groups = 2
    /\ bps_control = "swap"
    /\ \E g \in Groups : producer[g] = "block"

\* Every producer sends its readiness message at most once, after the barrier
\* and the stagger delay, and has sent it when it enters its loop.
ReadinessOnce ==
    \A g \in Groups :
        /\ ready_sent[g] <= 1
        /\ ready_sent[g] = 1 => producer[g] \in InLoop \cup {"aborted"}
        /\ (runtime_in_seconds = "Some" /\ producer[g] \in InLoop) => ready_sent[g] = 1

\* The runtime control task has counted one readiness message of each producer.
AllStarted ==
    /\ chains_started = num_chain_groups
    /\ \A g \in Groups : ready_sent[g] = 1

\* C7 as stated: the runtime control task sleeps and cancels only after one
\* readiness message from each producer, each of which sends exactly one,
\* after the barrier and its stagger delay and before its first block.
C7_CancelsAfterAllReady ==
    /\ runtime_control \in {"sleep", "done"} => AllStarted
    /\ runtime_control = "done" => shutdown_notifier
    /\ ReadinessOnce

\* C7 as amended: the runtime control task sleeps and cancels only after one
\* readiness message from each producer, or after run_benchmark has returned
\* the error of the first scrape and every readiness sender is dropped.
C7_CancelsAfterAllReadyOrClosed ==
    /\ runtime_control \in {"sleep", "done"} =>
          \/ AllStarted
          \/ /\ result = Err(-1, "scrape")
             /\ ready_senders = 0
             /\ ready_channel = 0
    /\ runtime_control = "done" => shutdown_notifier
    /\ ReadinessOnce

C7_Witness ==
    /\ num_chain_groups = 2
    /\ runtime_control = "done"
    /\ chains_started = 2
    /\ \E g \in Groups : producer[g] = "block"

\* C8: run_benchmark awaits the pacing task and the collector only after
\* every producer has returned, and when it awaits the collector no sender of
\* the block-timings channel is left, so the collector is not blocked.
C8_JoinOrder ==
    /\ main \in {"await_bps_control", "await_metrics_watcher", "await_runtime_control",
                 "await_quantiles"} => \A g \in Groups : producer[g] = "done"
    /\ main = "await_quantiles" =>
          /\ timings_senders = 0
          /\ quantiles = "recv" => ENABLED Quantiles

C8_Witness ==
    /\ num_chain_groups = 2
    /\ main = "await_quantiles"
    /\ quantiles = "recv"

\* The p99 the current health check computed for validator v is above the
\* threshold (+inf included).
Unhealthy(v) ==
    last_p99[v].tag = "Ok" /\ Exceeds(last_p99[v], PROXY_LATENCY_P99_THRESHOLD)

\* C9: when the p99 a health check computes for some validator is above 400 ms
\* (+inf included), the watcher has cancelled the token and stopped; when the
\* p99 of every validator is computed and at most 400 ms, validators_healthy
\* returns Ok(true) and the watcher does not cancel.
C9_UnhealthyCancels ==
    /\ (\E v \in DOMAIN last_p99 : Unhealthy(v))
           => (shutdown_notifier /\ metrics_watcher = "done")
    /\ (last_p99 # << >> /\ \A v \in DOMAIN last_p99 :
                               last_p99[v].tag = "Ok" /\ ~Unhealthy(v))
           => (health_result = "Ok(true)" /\ metrics_watcher # "panicked")

\* C10: whenever diff_histograms succeeds, the difference is non-negative in
\* every bucket, in the count and in the sum.
C10_DiffNonNegative ==
    hist_diff.tag = "Ok" =>
        /\ \A i \in 1 .. Len(hist_diff.buckets) : hist_diff.buckets[i].count >= 0
        /\ hist_diff.count >= 0
        /\ hist_diff.sum >= 0

\* The validator of the last loop iteration of a health check that is over,
\* and the histogram parsed for it.
CheckOver == health_result \notin {"none", "pending"}
LastHistogram == parse_histogram(last_scrape)

\* C11: when the count scraped for a validator is lower than the count of its
\* previous snapshot, validators_healthy fails with HistogramCountMismatch,
\* no p99 is computed for the validator, and the watcher has cancelled the
\* token and stopped.
C11_CountRegressionAborts ==
    (/\ CheckOver
     /\ LastHistogram.tag = "Ok"
     /\ LastHistogram.count < previous_histogram_snapshots[health_index].count)
    => /\ health_result = "Err"
       /\ health_error = "HistogramCountMismatch"
       /\ last_p99[health_index] = NotComputed
       /\ shutdown_notifier
       /\ metrics_watcher = "done"

C11_Witness ==
    /\ health_error = "HistogramCountMismatch"
    /\ health_index = 1
    /\ LastHistogram.count < previous_histogram_snapshots[1].count
    /\ last_p99[0].tag = "Ok"
    /\ metrics_watcher = "done"

\* The two snapshots have the same number of buckets and the same boundary at
\* every position.
SameBounds(previous, current) ==
    /\ Len(previous.buckets) = Len(current.buckets)
    /\ \A i \in 1 .. Len(previous.buckets) :
           previous.buckets[i].less_than = current.buckets[i].less_than

\* C12: diff_histograms succeeds only on two snapshots with the same sequence
\* of bucket boundaries, and fails on any other pair.
C12_DiffOnlyOnSameBounds ==
    hist_diff # NoHistogram =>
        /\ hist_diff.tag = "Ok" => SameBounds(hist_previous, hist_current)
        /\ ~SameBounds(hist_previous, hist_current) =>
               hist_diff.tag \in {"BucketBoundariesDoNotMatch", "HistogramCountMismatch"}

\* ceil(quantile * total_count / 100): the least t with 100 * t at least
\* quantile * total_count.
CeilOfShare(total_count, quantile) ==
    CHOOSE t \in 0 .. total_count :
        100 * t >= quantile * total_count /\ 100 * (t - 1) < quantile * total_count

\* The buckets whose cumulative count is at least t, and the first of them.
ReachingBuckets(buckets, t) == {i \in 1 .. Len(buckets) : buckets[i].count >= t}
FirstReaching(buckets, t) ==
    CHOOSE i \in ReachingBuckets(buckets, t) :
        \A j \in ReachingBuckets(buckets, t) : i <= j

\* The cumulative count and the boundary before bucket i.
CumBefore(buckets, i) == IF i = 1 THEN 0 ELSE buckets[i - 1].count
BoundBefore(buckets, i) == IF i = 1 THEN 0 ELSE buckets[i - 1].less_than

\* r is prev_bound + (t - prev_cum) / bucket_count * (upper - prev_bound) for
\* bucket i; with an infinite upper boundary and t above prev_cum that is +inf.
IsInterpolation(r, buckets, i, t) ==
    LET prev_cum == CumBefore(buckets, i)
        prev_bound == BoundBefore(buckets, i)
        bucket_count == buckets[i].count - prev_cum
        upper == buckets[i].less_than
    IN  /\ r.tag = "Ok"
        /\ upper # Infinity =>
              /\ r.den # 0
              /\ r.num * bucket_count =
                     r.den * (prev_bound * bucket_count + (t - prev_cum) * (upper - prev_bound))
        /\ (upper = Infinity /\ t > prev_cum) => (r.num = Infinity /\ r.den = 1)

\* C13: compute_quantile returns NoDataYetForP99Calculation for a total count
\* of 0; otherwise, when some bucket reaches target = ceil(q * total_count)
\* and the first such bucket has samples of its own, it returns the linear
\* interpolation in that bucket.
C13_QuantileFormula ==
    quant_results # << >> =>
        \A q \in QuantileInputs :
            LET t == CeilOfShare(quant_total_count, q) IN
            IF quant_total_count = 0
            THEN quant_results[q].tag = "NoDataYetForP99Calculation"
            ELSE (/\ ReachingBuckets(quant_buckets, t) # {}
                  /\ LET i == FirstReaching(quant_buckets, t) IN
                         quant_buckets[i].count # CumBefore(quant_buckets, i))
                 => IsInterpolation(quant_results[q], quant_buckets,
                                    FirstReaching(quant_buckets, t), t)

C13_Witness ==
    /\ quant_results # << >>
    /\ quant_total_count = 2
    /\ Len(quant_buckets) = 3
    /\ quant_buckets[1].count = 0 /\ quant_buckets[2].count = 2
    /\ quant_results[50].tag = "Ok"
    /\ quant_results[50].num = 3 * PROXY_LATENCY_P99_THRESHOLD
    /\ quant_results[50].den = 2

\* p <= q for two successful quantiles, neither of them NaN.
AtMost(p, q) == p.den # 0 /\ q.den # 0 /\ p.num * q.den <= q.num * p.den

C16_EmptyBucketIsError ==
    quant_results # << >> =>
        \A q \in QuantileInputs :
            LET t == CeilOfShare(quant_total_count, q) IN
            (/\ quant_total_count # 0
             /\ ReachingBuckets(quant_buckets, t) # {}
             /\ LET i == FirstReaching(quant_buckets, t) IN
                    quant_buckets[i].count = CumBefore(quant_buckets, i))
            => quant_results[q].tag = "UnexpectedEmptyBucket"

C16_Witness ==
    /\ quant_results # << >>
    /\ \E q \in QuantileInputs : quant_results[q].tag = "UnexpectedEmptyBucket"
    /\ quant_results[Quantile99].tag = "Ok"

\* The interval diff of the validator of the last loop iteration.
LastDiff == diff_histograms(previous_histogram_snapshots[health_index], LastHistogram)

\* The p99 target of the diff d falls in its last bucket, which is the
\* +infinity bucket.
TargetInLastBucket(d) ==
    LET t == CeilOfShare(d.count, Quantile99)
        n == Len(d.buckets)
    IN  /\ d.count > 0
        /\ d.buckets[n].less_than = Infinity
        /\ d.buckets[n].count >= t
        /\ \A i \in 1 .. (n - 1) : d.buckets[i].count < t

\* C14: when the p99 target of a validator's interval diff falls in the last,
\* +infinity bucket, the p99 is +infinity, validators_healthy returns
\* Ok(false), and the watcher has cancelled the token and stopped.
C14_InfinityIsUnhealthy ==
    (/\ CheckOver
     /\ LastHistogram.tag = "Ok"
     /\ LastDiff.tag = "Ok"
     /\ TargetInLastBucket(LastDiff))
    => /\ last_p99[health_index] = Quantile("Ok", Infinity, 1)
       /\ health_result = "Ok(false)"
       /\ shutdown_notifier
       /\ metrics_watcher = "done"

\* The step is the loop iteration of validators_healthy for validator v, and
\* the interval diff of v has total count 0.
SkipsValidator(v) ==
    /\ metrics_watcher = "checking"
    /\ health_index = v
    /\ last_p99[v] = NotComputed
    /\ last_p99'[v].tag = "NoDataYetForP99Calculation"

\* C17: the loop iteration for a validator whose interval diff has total
\* count 0 does not cancel the token, leaves the validator's previous snapshot
\* as it is, and goes on to the next validator, or returns Ok(true) after the
\* last one.
C17_NoDataSkipsValidator ==
    [][\A v \in Validators : SkipsValidator(v) =>
          /\ shutdown_notifier' = shutdown_notifier
          /\ previous_histogram_snapshots'[v] = previous_histogram_snapshots[v]
          /\ IF v + 1 < NumValidators
             THEN /\ metrics_watcher' = "checking"
                  /\ health_index' = v + 1
                  /\ health_result' = "pending"
             ELSE /\ metrics_watcher' = "running"
                  /\ health_result' = "Ok(true)"
      ]_vars

C17_Witness ==
    /\ last_p99[0].tag = "NoDataYetForP99Calculation"
    /\ parse_histogram(last_scrape).tag = "Ok"
    /\ last_p99[1].tag = "Ok"
    /\ health_result = "Ok(true)"
    /\ ~shutdown_notifier

\* The blocks counted and not yet reported: the counters and the running sum
\* of the pacing task.
Tally == current_bps_count + SumUpTo(bps_counts, num_chain_groups)

\* The step is a block completion (fetch_add) of some producer.
BlockCompleted == \E g \in Groups : producer[g] = "count" /\ producer'[g] # "count"

\* The step ends a pacing tick: the sum is complete and reported.
TickReported == bps_control = "notify" /\ bps_control' = "check"

\* C18: every swap leaves its counter at zero, every counter is swapped before
\* the sum is reported, and every block completion is counted exactly once: a
\* completion adds one to the counters and the running sum together, a report
\* takes the reported sum out, and no other step changes them.
C18_NoCompletionLost ==
    [][/\ swap_index' = swap_index + 1 => bps_counts'[swap_index] = 0
       /\ TickReported => swap_index = num_chain_groups
       /\ Tally' = Tally + (IF BlockCompleted THEN 1 ELSE 0)
                         - (IF TickReported THEN current_bps_count ELSE 0)
      ]_vars

C18_Witness ==
    /\ num_chain_groups = 2
    /\ bps_control = "notify"
    /\ current_bps_count >= 2
    /\ bps_counts[0] > 0

\* The last request was handled while the validator had the given fault type.
HandledAs(fault) == request.id > 0 /\ response.id = request.id /\ response.fault = fault

\* What an honest validator replies to the request.
HonestReply(r) ==
    CASE r.kind = "block_proposal" -> do_handle_block_proposal("Honest", r.outcome)
      [] r.kind = "lite_certificate" ->
            do_handle_lite_certificate("Honest", r.full, r.outcome)
      [] r.kind = "timeout_certificate" ->
            do_handle_certificate("Honest", "Timeout", r.outcome)
      [] r.kind = "validated_certificate" ->
            do_handle_certificate("Honest", "Validated", r.outcome)
      [] r.kind = "confirmed_certificate" ->
            do_handle_certificate("Honest", "Confirmed", r.outcome)
      [] OTHER -> do_handle_chain_info_query("Honest", r.outcome)

\* The errors that are a NodeError::ClientIoError.
ClientIoErrors ==
    {"ClientIoError(offline)", "ClientIoError(refusing to validate)",
     "ClientIoError(refusing to confirm)"}

\* C19: a Malicious validator never passes a block proposal to its worker: the
\* proposal is answered with the arithmetic-overflow error and the worker applies
\* nothing (no validate vote); a timeout, validated or confirmed certificate and a
\* chain info query get the reply, the worker calls and the worker effect that an
\* honest validator gives them.
C19_MaliciousIgnoresProposals ==
    HandledAs("Malicious") =>
        /\ request.kind = "block_proposal" =>
              /\ response.reply.worker_calls = {}
              /\ response.reply.tag = "Err"
              /\ response.reply.error = "ArithmeticError(Overflow)"
              /\ request.id \notin worker_applied
        /\ request.kind \in {"timeout_certificate", "validated_certificate",
                             "confirmed_certificate", "chain_info_query"} =>
              /\ response.reply = HonestReply(request)
              /\ (request.id \in worker_applied) = HonestReply(request).applied

\* A Malicious validator has answered a block proposal its worker would have accepted,
\* after its worker applied an earlier request.
C19_Witness ==
    /\ HandledAs("Malicious")
    /\ request.kind = "block_proposal"
    /\ request.outcome = "Ok"
    /\ worker_applied = {1}
    /\ request.id = 2

\* C20: an Offline validator answers every block proposal, every lite, timeout,
\* validated and confirmed certificate and every chain info query with a
\* ClientIoError, and its worker applies none of them.
C20_OfflineRefusesEverything ==
    HandledAs("Offline") =>
        /\ response.reply.tag = "Err"
        /\ response.reply.error \in ClientIoErrors
        /\ ~response.reply.applied
        /\ request.id \notin worker_applied

\* The requests that carry a certificate.
CertificateRequests ==
    {"lite_certificate", "timeout_certificate", "validated_certificate",
     "confirmed_certificate"}

\* C21: an OfflineWithInfo validator answers a chain info query from its worker with
\* the reply an honest validator gives, and refuses every block proposal and every
\* certificate (lite, timeout, validated, confirmed) with a ClientIoError while its
\* worker applies none of them.
C21_OfflineWithInfoAnswersQueries ==
    HandledAs("OfflineWithInfo") =>
        /\ request.kind = "chain_info_query" =>
              /\ response.reply = HonestReply(request)
              /\ response.reply.worker_calls = {"handle_chain_info_query"}
        /\ request.kind \in CertificateRequests \cup {"block_proposal"} =>
              /\ response.reply.tag = "Err"
              /\ response.reply.error \in ClientIoErrors
              /\ ~response.reply.applied
              /\ request.id \notin worker_applied

\* The last request belongs to the validated phase: a validated certificate, sent in
\* full or as a lite certificate the worker completes to one.
ValidatedPhase ==
    \/ request.kind = "validated_certificate"
    \/ request.kind = "lite_certificate" /\ request.full = "Validated"

\* The worker was called for the last request and changed as for an honest validator,
\* but the sender received an error.
AppliedButWithheld ==
    /\ response.reply.worker_calls = HonestReply(request).worker_calls
    /\ response.reply.applied = HonestReply(request).applied
    /\ (request.id \in worker_applied) = HonestReply(request).applied
    /\ response.reply.tag = "Err"
    /\ HonestReply(request).tag = "Ok" => response.reply.error \in ClientIoErrors

\* The last request was handled as by an honest validator.
AsHonest ==
    /\ response.reply = HonestReply(request)
    /\ (request.id \in worker_applied) = HonestReply(request).applied

\* C22: a DontSendValidateVote validator passes each block proposal to its worker as an
\* honest validator does but answers with an error, a DontSendConfirmVote validator
\* does the same with each validated certificate, and both handle the requests of
\* every other phase as an honest validator does.
C22_OnlyThatPhaseWithheld ==
    /\ HandledAs("DontSendValidateVote") =>
          IF request.kind = "block_proposal" THEN AppliedButWithheld ELSE AsHonest
    /\ HandledAs("DontSendConfirmVote") =>
          IF ValidatedPhase THEN AppliedButWithheld ELSE AsHonest

\* A DontSendConfirmVote validator's worker has applied a validated certificate whose
\* confirm vote was withheld, after a request that was answered.
C22_Witness ==
    /\ HandledAs("DontSendConfirmVote")
    /\ request.kind = "validated_certificate"
    /\ request.id = 2
    /\ worker_applied = {1, 2}
    /\ response.reply.error = "ClientIoError(refusing to confirm)"

\* C23: a DontProcessValidated validator never passes a validated certificate to the
\* handler of its worker: it answers with an error and the worker applies nothing;
\* block proposals, timeout certificates and confirmed certificates are handled as by
\* an honest validator.
C23_ValidatedNeverProcessed ==
    HandledAs("DontProcessValidated") =>
        /\ ValidatedPhase =>
              /\ "fully_handle_certificate_with_notifications"
                     \notin response.reply.worker_calls
              /\ response.reply.tag = "Err"
              /\ ~response.reply.applied
              /\ request.id \notin worker_applied
        /\ request.kind \in {"block_proposal", "timeout_certificate",
                             "confirmed_certificate"} => AsHonest

\* A DontProcessValidated validator has refused a validated certificate its worker
\* would have accepted, after its worker applied an earlier request.
C23_Witness ==
    /\ HandledAs("DontProcessValidated")
    /\ request.kind = "validated_certificate"
    /\ request.outcome = "Ok"
    /\ request.id = 2
    /\ worker_applied = {1}

\* The positions of a spawned task that was not aborted.
TaskPositions ==
    {"lock", "full_certificate", "handle", "worker", "match", "send", "unlock", "done"}

\* The task has finished and its worker accepted the request it was given.
WorkerAccepted(t) ==
    /\ task[t].pc = "done"
    /\ task[t].option = Called("Ok")
    /\ task[t].kind # "chain_info_query"

Unsent(t) ==
    /\ task[t].pc \in {"full_certificate", "handle", "worker", "match", "send", "unlock"}
    /\ task[t].delivery = "none"

\* The task still owns the MutexGuard: in do_handle_lite_certificate the guard is gone
\* when sender.send runs.
HoldsGuard(t) ==
    \/ task[t].pc \in {"full_certificate", "handle", "worker", "match", "unlock"}
    \/ task[t].pc = "send" /\ task[t].kind # "lite_certificate"

\* The tasks inside a call of the worker's handler.
InWorker == {t \in TaskIds : task[t].pc = "worker"}

\* C25 as stated: every request handler holds the validator's lock from the read of
\* the fault type through the worker call until its response is sent, so that no two
\* requests are inside a worker call together and no request reads two fault types.
C25_LockHeldUntilSent ==
    /\ \A t \in TaskIds : Unsent(t) => lock = t
    /\ \A t \in TaskIds : Cardinality(task[t].seen) <= 1
    /\ Cardinality(InWorker) <= 1

\* C25, amended: every request handler holds the validator's lock from the read of the
\* fault type through the worker call until its result is computed, and every handler
\* but that of lite certificates until its response is sent; no two requests are
\* inside a worker call together and no request reads two fault types.
C25_LockHeldThroughWorkerCall ==
    /\ \A t \in TaskIds : HoldsGuard(t) => lock = t
    /\ \A t \in TaskIds : Cardinality(task[t].seen) <= 1
    /\ Cardinality(InWorker) <= 1

\* One request is inside its worker call while a second request waits for the lock and
\* the fault type the first one read is still in force.
C25_Witness ==
    \E t, u \in TaskIds :
        /\ task[t].pc = "worker"
        /\ task[u].pc = "lock"
        /\ task[t].seen = {fault_type}
        /\ fault_type # "Honest"

\* The number of blocks the call is asked for: `limit`, or all the blocks down to
\* height 0 when there are fewer.
BlocksWanted == IF blocks_limit < blocks_from THEN blocks_limit ELSE blocks_from

\* The hashes of the blocks on the way: `from` and the blocks below it.
OnTheWay == {h \in BlockHashes : blocks_from - BlocksWanted < h /\ h <= blocks_from}

\* C26: read_confirmed_blocks_downward(from, limit) returns the block at `from` and the
\* blocks its previous_block_hash links lead to, one height lower each time, `limit`
\* of them or all down to the block without predecessor; if one of these blocks
\* cannot be read the result is an error, and never a shorter list.
C26_NoSilentTruncation ==
    blocks_result.tag # "none" =>
        IF OnTheWay \subseteq blocks_readable
        THEN /\ blocks_result.tag = "Ok"
             /\ Len(blocks_result.values) = BlocksWanted
             /\ \A i \in 1 .. BlocksWanted :
                   blocks_result.values[i] = ConfirmedBlock(blocks_from - i + 1)
        ELSE blocks_result.tag = "Err"

\* A call that asked for at least two blocks met a block it could not read after one
\* it could read.
C26_Witness ==
    /\ blocks_result.tag = "Err"
    /\ blocks_from \in blocks_readable
    /\ BlocksWanted >= 2

\* C27: once the validator has issued a confirm vote for a block in a round of a height,
\* every validate vote it issues from then on in that round or in an earlier round of
\* that height is for the same block.
C27_LockPreserved ==
    [][\A c \in votes :
           c.kind = "confirm" =>
               \A v \in votes' \ votes :
                   (v.kind = "validate" /\ v.height = c.height /\ v.round <= c.round)
                       => v.block = c.block]_vars

\* The validator holds a confirm vote and has just refused a proposal of that height
\* because of its lock.
C27_Witness ==
    /\ \E c \in votes : c.kind = "confirm" /\ c.height = manager_request.height
    /\ manager_request.kind = "Proposal"
    /\ manager_result = "Err(locked)"

\* C28: in every reachable state the validator has cast at most one validate vote and
\* at most one confirm vote for each height and round of the chain, and the votes it
\* holds are votes of the chain's next height.
C28_SingleVote ==
    /\ \A v, w \in votes :
          (v.kind = w.kind /\ v.height = w.height /\ v.round = w.round) => v = w
    /\ \A v \in votes : v.height = next_block_height

\* The validator holds a validate vote and has just refused a proposal for another
\* block in the same round.
C28_Witness ==
    /\ \E v \in votes :
          v.kind = "validate" /\ v.height = next_block_height /\ v.round = current_round
    /\ manager_request.kind = "Proposal"
    /\ manager_result = "Err(voted)"

\* The confirmed certificates on a validator's chain are those of heights 0, 1, 2, ...
HeightsInOrder ==
    /\ \A v \in Nodes :
          \A i \in 1 .. Len(confirmed_certificates[v]) :
              confirmed_certificates[v][i].height = i - 1
    /\ next_block_height = Len(confirmed_certificates[1])

\* The worker has just been offered a confirmed certificate above its next height.
OfferedAboveNextHeight ==
    /\ manager_request' # manager_request \/ manager_result' # manager_result
    /\ manager_request'.kind = "Confirmed"
    /\ manager_request'.height > next_block_height

\* C29: on every validator the confirmed certificates are applied in increasing height
\* order without gaps; every applied confirmed certificate raises next_block_height by
\* exactly one; and a confirmed certificate offered while the block below it is missing
\* is refused with an error and changes nothing on the chain.
C29_HeightsWithoutGaps ==
    [][/\ HeightsInOrder'
       /\ \A v \in Nodes :
             \/ confirmed_certificates'[v] = confirmed_certificates[v]
             \/ Len(confirmed_certificates'[v]) = Len(confirmed_certificates[v]) + 1
       /\ next_block_height' \in {next_block_height, next_block_height + 1}
       /\ OfferedAboveNextHeight =>
             /\ manager_result' \in {"Err(missing blocks)", "Err(quorum)"}
             /\ UNCHANGED <<next_block_height, current_round,
                            locked_validated_certificate, votes,
                            confirmed_certificates>>]_vars

\* The worker has refused a confirmed certificate of height 1 while it had no block,
\* although another validator already has both blocks.
C29_Witness ==
    /\ manager_request.kind = "Confirmed"
    /\ manager_request.height = 1
    /\ manager_result = "Err(missing blocks)"
    /\ next_block_height = 0
    /\ \E v \in Replicas : Len(confirmed_certificates[v]) = 2

\* The signers of the certificate hold more than 2/3 of the voting weight of the
\* committee of the block's epoch.
MoreThanTwoThirds(certificate) ==
    3 * TotalWeight(EpochAt(certificate.height), certificate.signers)
        > 2 * TotalWeight(EpochAt(certificate.height), Nodes)

\* C30: every certificate the worker accepts, every confirmed certificate on a
\* validator's chain, and the confirmed certificate the harness finds for a height
\* carry signatures of more than 2/3 of the voting weight of the committee of the
\* block's epoch.
C30_QuorumSoundness ==
    /\ (manager_result = "Ok" /\ manager_request.kind # "Proposal")
          => MoreThanTwoThirds(manager_request)
    /\ \A v \in Nodes :
          \A i \in 1 .. Len(confirmed_certificates[v]) :
              MoreThanTwoThirds(confirmed_certificates[v][i])
    /\ (harness_found.tag = "Ok" /\ harness_found.certificate # NoCertificate) =>
          /\ harness_found.certificate.height = harness_found.height
          /\ MoreThanTwoThirds(harness_found.certificate)

\* The harness has found the confirmed certificate of height 1, a block of the later
\* epoch, on two validators.
C30_Witness ==
    /\ harness_found.tag = "Ok"
    /\ harness_found.height = 1
    /\ harness_found.count = 2
    /\ harness_found.certificate.kind = "Confirmed"

\* ------------------------------------------------------------------
\* TestBuilder (test_utils.rs): new, set_fault_type, add_root_chain and
\* genesis_chains.  A chain description is its origin Root(index) and the
\* balance of its initial configuration; the other fields of the
\* description are the same in every description add_root_chain makes.
\* ------------------------------------------------------------------
ValidatorIndexes == 0 .. (BuilderCount - 1)

RootIndexes == 0 .. MaxRootIndex

Balances == 0 .. MaxBalance

\* The fault types the tests give to a validator of the builder.
BuilderFaultTypes == {"Honest", "Malicious", "Offline"}

ChainDescription(origin, balance) == [origin |-> origin, balance |-> balance]

\* The builder's fields add_root_chain reads and writes.
Builder(admin, accounts, storages) ==
    [admin_description |-> admin, genesis_accounts |-> accounts,
     validator_storages |-> storages]

\* The description a validator stores: always the genuine one.
CreatedByAll(fault, description) == description

\* The description a validator stores: with balance zero on a Malicious
\* validator, the genuine one otherwise.
CreatedBy(fault, description) ==
    IF fault = "Malicious"
    THEN ChainDescription(description.origin, 0)
    ELSE description

\* One pass through the body of add_root_chain after the admin chain is
\* taken care of.
CreateRootChain(builder, faults, index, balance) ==
    LET description == ChainDescription(index, balance)
    IN Builder(builder.admin_description \/ index = 0,
               Append(builder.genesis_accounts, description),
               [v \in ValidatorIndexes |->
                   builder.validator_storages[v]
                       \cup {CreatedBy(faults[v], description)}])

\* The admin chain is never made implicitly.
AdminNeverMissing(builder, index) == FALSE

\* The admin chain is not initialized and another chain is asked for.
AdminMissing(builder, index) == ~builder.admin_description /\ index # 0

add_root_chain(builder, faults, index, balance) ==
    CreateRootChain(
        IF AdminMissing(builder, index)
        THEN CreateRootChain(builder, faults, 0, 0)
        ELSE builder,
        faults, index, balance)

\* The i-th recorded genesis account has origin Root(i).
OriginsInOrder(accounts) ==
    \A i \in 1 .. Len(accounts) : accounts[i].origin = i - 1

genesis_chains(accounts) ==
    IF OriginsInOrder(accounts)
    THEN BuilderResult("ok", [i \in 1 .. Len(accounts) |-> accounts[i].balance])
    ELSE BuilderResult("panic", << >>)

\* TestBuilder::new(storage_builder, count, with_faulty_validators, signer).
BuilderInit ==
    /\ ConfInit(1, 0, {"None"}) /\ TaskInit /\ HistInit /\ ValidatorIdle /\ TasksIdle
    /\ BlocksIdle /\ ManagerIdle /\ ShardsIdle /\ ServerIdle /\ InfoIdle
    /\ \E with_faulty_validators \in 0 .. BuilderCount :
           validator_clients =
               [i \in ValidatorIndexes |->
                   IF i < with_faulty_validators THEN "Malicious" ELSE "Honest"]
    /\ admin_description = FALSE
    /\ genesis_accounts = << >>
    /\ validator_storages = [i \in ValidatorIndexes |-> {}]
    /\ builder_call = NoBuilderCall
    /\ builder_result = BuilderResult("none", << >>)

BuilderFrame ==
    UNCHANGED <<benchVars, shutdown_notifier, metrics_watcher, histVars, validatorVars,
                taskVars, blocksVars, managerVars, shardVars, serverVars, infoVars>>

BuilderSetFaultType ==
    \E indexes \in SUBSET ValidatorIndexes, fault \in BuilderFaultTypes :
        /\ indexes # {}
        /\ validator_clients' =
               [i \in ValidatorIndexes |->
                   IF i \in indexes THEN fault ELSE validator_clients[i]]
        /\ builder_call' = BuilderCall("set_fault_type", 0, 0)
        /\ builder_result' = BuilderResult("ok", << >>)
        /\ UNCHANGED <<admin_description, genesis_accounts, validator_storages>>
        /\ BuilderFrame

AddRootChain ==
    \E index \in RootIndexes, balance \in Balances :
        LET before == Builder(admin_description, genesis_accounts, validator_storages)
            after == add_root_chain(before, validator_clients, index, balance)
        IN /\ Len(after.genesis_accounts) <= MaxAccounts
           /\ admin_description' = after.admin_description
           /\ genesis_accounts' = after.genesis_accounts
           /\ validator_storages' = after.validator_storages
           /\ builder_call' = BuilderCall("add_root_chain", index, balance)
           /\ builder_result' = BuilderResult("ok", << >>)
           /\ UNCHANGED validator_clients
           /\ BuilderFrame

GenesisChains ==
    /\ builder_call' = BuilderCall("genesis_chains", 0, 0)
    /\ builder_result' = genesis_chains(genesis_accounts)
    /\ UNCHANGED <<validator_clients, admin_description, genesis_accounts,
                   validator_storages>>
    /\ BuilderFrame

BuilderNext == BuilderSetFaultType \/ AddRootChain \/ GenesisChains

SpecBuilder == BuilderInit /\ [][BuilderNext]_vars

\* C31: every chain made by add_root_chain is held by a Malicious
\* validator with an initial balance other than the genuine one, and by
\* every other validator with its genuine description.
C31_MaliciousHoldsOtherBalance ==
    \A i \in 1 .. Len(genesis_accounts), v \in ValidatorIndexes :
        IF validator_clients[v] = "Malicious"
        THEN \E held \in validator_storages[v] :
                 /\ held.origin = genesis_accounts[i].origin
                 /\ held.balance # genesis_accounts[i].balance
        ELSE genesis_accounts[i] \in validator_storages[v]

NextInOrder(accounts, index) ==
    \/ index = Len(accounts)
    \/ Len(accounts) = 0 /\ index = 1

DigitChars == <<"0", "1", "2", "3", "4", "5", "6", "7", "8", "9">>

IsDigit(c) == \E k \in 1 .. 10 : DigitChars[k] = c

DigitValue(c) == (CHOOSE k \in 1 .. 10 : DigitChars[k] = c) - 1

\* u16::MAX.
U16Max == 65535

\* The parse failed.
ParseError == -1

\* The digits of <u16 as FromStr>: every character must be a digit and
\* the value must not overflow the 16 bits.
RECURSIVE ParseDigits(_, _)
ParseDigits(digits, value) ==
    IF digits = << >> THEN value
    ELSE IF ~IsDigit(digits[1]) THEN ParseError
    ELSE IF value * 10 + DigitValue(digits[1]) > U16Max THEN ParseError
    ELSE ParseDigits(Tail(digits), value * 10 + DigitValue(digits[1]))

\* str::parse::<u16>(): an optional '+', then at least one digit.
ParseU16(string) ==
    IF string = << >> THEN ParseError
    ELSE LET digits == IF string[1] = "+" THEN Tail(string) ELSE string
         IN IF digits = << >> THEN ParseError ELSE ParseDigits(digits, 0)

\* str::parse::<NonZeroU16>().
ParseNonZeroU16(string) ==
    IF ParseU16(string) = 0 THEN ParseError ELSE ParseU16(string)

\* The decimal digits of a number, without padding.
RECURSIVE Decimal(_)
Decimal(i) ==
    IF i < 10 THEN <<DigitChars[i + 1]>>
    ELSE Append(Decimal(i \div 10), DigitChars[(i % 10) + 1])

RECURSIVE Repeat(_, _)
Repeat(c, len) == IF len <= 0 THEN << >> ELSE <<c>> \o Repeat(c, len - 1)

\* format!("{i}"): the index without padding.
FormatUnpadded(i, len) == Decimal(i)

\* format!("{i:0len$}"): the index padded with zeroes to at least len
\* characters.
Format(i, len) == Repeat("0", len - Len(Decimal(i))) \o Decimal(i)

\* str::replacen(pattern, to, 1): the first occurrence of the pattern,
\* scanning from the left, is replaced.
RECURSIVE Replacen(_, _, _)
Replacen(string, pattern, to) ==
    IF Len(string) < Len(pattern) THEN string
    ELSE IF SubSeq(string, 1, Len(pattern)) = pattern
         THEN to \o SubSeq(string, Len(pattern) + 1, Len(string))
         ELSE <<string[1]>> \o Replacen(Tail(string), pattern, to)

ShardConfig(host, port, metrics_port) ==
    [host |-> host, port |-> port, metrics_port |-> metrics_port]

\* Option<u16>::None.
NoPort == -2

\* A parse error is never propagated.
FailedNever(port) == FALSE

\* The `?` after parse() and context(): the parse failed.
Failed(port) == port = ParseError

\* One iteration of the loop `for i in 1u16..=num_shards`: the shard
\* config of index i, with ParseError where a parse failed.
ShardOf(i, len, arguments) ==
    LET pattern == Repeat("%", len)
        index == Format(i, len)
        host == Replacen(arguments.host, pattern, index)
        port == ParseU16(Replacen(arguments.port, pattern, index))
        metrics_port ==
            IF arguments.metrics_port = NoString THEN NoPort
            ELSE ParseU16(Replacen(arguments.metrics_port, pattern, index))
    IN ShardConfig(host, port, metrics_port)

\* The loop `for i in 1u16..=num_shards`: it returns at the first index
\* where a parse fails, the port being parsed before the metrics port.
ShardsLoop(len, num_shards, arguments) ==
    LET shards == [i \in 1 .. num_shards |-> ShardOf(i, len, arguments)]
        failing == {i \in 1 .. num_shards :
                       Failed(shards[i].port) \/ Failed(shards[i].metrics_port)}
    IN IF failing = {} THEN ShardsResult("ok", shards, "")
       ELSE LET first == CHOOSE i \in failing : \A j \in failing : i <= j
            IN IF Failed(shards[first].port)
               THEN ShardsResult("err", << >>,
                                 "Failed to decode port into an integers")
               ELSE ShardsResult("err", << >>,
                                 "Failed to decode metrics port into an integers")

generate_shard_configs(arguments) ==
    LET len == Len(arguments.num_shards)
        num_shards == ParseNonZeroU16(arguments.num_shards)
    IN IF Failed(num_shards)
       THEN ShardsResult("err", << >>, "Failed to parse the number of shards")
       ELSE ShardsLoop(len, num_shards, arguments)

\* The strings given as --num-shards: up to MaxNumShardsLen characters,
\* the empty string and a number beyond 16 bits.
NumShardsChars == {"0", "1", "6", "+"}

NumShardsStrings ==
    UNION {[1 .. n -> NumShardsChars] : n \in 1 .. MaxNumShardsLen}
        \cup {<< >>, <<"7", "0", "0", "0", "0">>}

HostTemplates ==
    {<<"h">>, <<"h", "%">>, <<"h", "%", "%">>, <<"%", "h", "%", "%", "%">>}

PortTemplates ==
    {<< >>, <<"h">>, <<"8", "0">>, <<"%">>, <<"+", "%">>, <<"1", "%">>,
     <<"1", "0", "%", "%">>, <<"%", "%", "%">>, <<"6", "5", "5", "3", "%">>,
     <<"6", "5", "5", "%", "%">>}

MetricsPortTemplates ==
    {NoString, <<"%">>, <<"1", "1", "%", "%">>, <<"6", "5", "5", "3", "%">>}

\* Any command line of edit-shards.
ShardsInit ==
    /\ ConfInit(1, 0, {"None"}) /\ TaskInit /\ HistInit /\ ValidatorIdle /\ TasksIdle
    /\ BlocksIdle /\ ManagerIdle /\ BuilderIdle /\ ServerIdle /\ InfoIdle
    /\ \E num_shards \in NumShardsStrings, host \in HostTemplates,
          port \in PortTemplates, metrics_port \in MetricsPortTemplates :
           shard_arguments = ShardArguments(num_shards, host, port, metrics_port)
    /\ shard_configs = ShardsResult("none", << >>, "")

GenerateShardConfigs ==
    /\ shard_configs.tag = "none"
    /\ shard_configs' = generate_shard_configs(shard_arguments)
    /\ UNCHANGED <<shard_arguments, benchVars, shutdown_notifier, metrics_watcher,
                   histVars, validatorVars, taskVars, blocksVars, managerVars,
                   builderVars, serverVars, infoVars>>

ShardsNext == GenerateShardConfigs

SpecShardConfigs == ShardsInit /\ [][ShardsNext]_vars

\* The string consists of digits, at least one.
AllDigits(string) ==
    Len(string) >= 1 /\ \A k \in 1 .. Len(string) : IsDigit(string[k])

RECURSIVE Pow10(_)
Pow10(n) == IF n = 0 THEN 1 ELSE 10 * Pow10(n - 1)

\* The number a string of digits denotes.
RECURSIVE DenotedFrom(_, _)
DenotedFrom(string, k) ==
    IF k > Len(string) THEN 0
    ELSE DigitValue(string[k]) * Pow10(Len(string) - k) + DenotedFrom(string, k + 1)

\* The number a string denotes when a '+' may come before its digits.
Unsigned16(string) ==
    IF string # << >> /\ string[1] = "+" THEN Tail(string) ELSE string

Denoted(string) == DenotedFrom(Unsigned16(string), 1)

\* The string is a number of 16 bits.
ValidPort(string) ==
    AllDigits(Unsigned16(string)) /\ Denoted(string) <= U16Max

\* i written with D digits, zeroes first.
ZeroPadded(i, D) == [k \in 1 .. D |-> DigitChars[((i \div Pow10(D - k)) % 10) + 1]]

\* The places where D consecutive '%' start in the template.
Occurrences(template, D) ==
    {p \in 1 .. (Len(template) - D + 1) :
        \A k \in p .. (p + D - 1) : template[k] = "%"}

\* The template with its first run of D '%' replaced by i in D digits.
Substituted(template, i, D) ==
    IF Occurrences(template, D) = {} THEN template
    ELSE LET p == CHOOSE q \in Occurrences(template, D) :
                      \A r \in Occurrences(template, D) : q <= r
         IN SubSeq(template, 1, p - 1) \o ZeroPadded(i, D)
                \o SubSeq(template, p + D, Len(template))

\* Every port of every shard 1..N is a port number after substitution.
PortsValid(arguments, N, D) ==
    \A i \in 1 .. N :
        /\ ValidPort(Substituted(arguments.port, i, D))
        /\ arguments.metrics_port # NoString =>
               ValidPort(Substituted(arguments.metrics_port, i, D))

\* The i-th shard config is the templates with i substituted.
Templated(shard, arguments, i, D) ==
    /\ shard.host = Substituted(arguments.host, i, D)
    /\ shard.port = Denoted(Substituted(arguments.port, i, D))
    /\ IF arguments.metrics_port = NoString
       THEN shard.metrics_port = NoPort
       ELSE shard.metrics_port = Denoted(Substituted(arguments.metrics_port, i, D))

\* C32: for num_shards a string of D digits denoting N >= 1,
\* generate_shard_configs returns, unless it fails, exactly N shard
\* configs in order, the i-th with host, port and metrics port being the
\* templates with the first run of D '%' replaced by i in D digits; and it
\* does not fail when N fits 16 bits and every port so obtained is a port
\* number.
C32_ShardsTemplated ==
    LET D == Len(shard_arguments.num_shards)
        N == Denoted(shard_arguments.num_shards)
    IN (/\ shard_configs.tag # "none"
        /\ AllDigits(shard_arguments.num_shards)
        /\ N >= 1) =>
           /\ shard_configs.tag = "ok" =>
                  /\ Len(shard_configs.shards) = N
                  /\ \A i \in 1 .. N :
                         Templated(shard_configs.shards[i], shard_arguments, i, D)
           /\ (N <= U16Max /\ PortsValid(shard_arguments, N, D)) =>
                  shard_configs.tag = "ok"

\* Sixteen shards with two-digit indices in the host, the port and the
\* metrics port.
C32_Witness ==
    /\ shard_configs.tag = "ok"
    /\ shard_arguments.num_shards = <<"1", "6">>
    /\ Len(shard_configs.shards) = 16
    /\ shard_configs.shards[1].host = <<"h", "0", "1">>
    /\ shard_configs.shards[1].port = 1001
    /\ shard_configs.shards[16].metrics_port = 1116

\* C33: generate_shard_configs returns an error and no shard config when
\* num_shards is not a non-zero number of 16 bits, or when the port or the
\* metrics port of some shard is not a port number after substitution.
C33_ErrorsOnBadInput ==
    LET D == Len(shard_arguments.num_shards)
        N == Denoted(shard_arguments.num_shards)
        parses == ValidPort(shard_arguments.num_shards) /\ N # 0
    IN (/\ shard_configs.tag # "none"
        /\ ~parses \/ ~PortsValid(shard_arguments, N, D)) =>
           /\ shard_configs.tag = "err"
           /\ shard_configs.shards = << >>

\* The run of '%' in the port template is longer than num_shards: the
\* port keeps a '%' and is refused.
C33_Witness ==
    /\ shard_configs.tag = "err"
    /\ shard_configs.error = "Failed to decode port into an integers"
    /\ shard_arguments.num_shards = <<"6">>
    /\ shard_arguments.port = <<"1", "0", "%", "%">>

\* ------------------------------------------------------------------
\* ServerContext::run (server.rs).  The JoinSet holds one task per shard
\* server that spawn_simple or spawn_grpc started and the task that
\* collects their handles.
\* ------------------------------------------------------------------
NetworkProtocols == {"Simple", "GrpcClearText", "GrpcTls"}

ShardIds(num_shards) == 0 .. (num_shards - 1)

\* The handle-collecting task of the JoinSet.
Collector == MaxShards + 1

\* `states`: every configured shard, whatever --shard says.
StatesOfAll(config) == ShardIds(config.num_shards)

\* `states`: the shard given by --shard, otherwise every configured shard.
States(config) ==
    IF config.shard # NoShard THEN {config.shard} ELSE ShardIds(config.num_shards)

\* spawn_simple and spawn_grpc: a server per state and the collecting task.
Spawned(states) == [t \in states \cup {Collector} |-> "running"]

\* Every task of the JoinSet has finished.
AllTasksFinished(tasks) == \A t \in DOMAIN tasks : tasks[t] = "finished"

\* A validator's configuration and command line; --shard names a
\* configured shard.
ServerInit ==
    /\ ConfInit(1, 0, {"None"}) /\ TaskInit /\ HistInit /\ ValidatorIdle /\ TasksIdle
    /\ BlocksIdle /\ ManagerIdle /\ BuilderIdle /\ ShardsIdle /\ InfoIdle
    /\ \E num_shards \in 0 .. MaxShards, protocol \in NetworkProtocols :
           \E shard \in ShardIds(num_shards) \cup {NoShard} :
               server_config = ServerConfig(shard, num_shards, protocol)
    /\ server_run = "start"
    /\ join_set = << >>
    /\ server_shutdown = FALSE
    /\ server_result = "none"

ServerFrame ==
    UNCHANGED <<benchVars, shutdown_notifier, metrics_watcher, histVars, validatorVars,
                taskVars, blocksVars, managerVars, builderVars, shardVars, infoVars>>

\* run, up to `join_set.await_all_tasks().await` or to `bail!`.
ServerRun ==
    /\ server_run = "start"
    /\ IF server_config.protocol = "GrpcTls"
       THEN /\ server_run' = "returned"
            /\ server_result' = "err"
            /\ join_set' = join_set
       ELSE /\ server_run' = "await_all_tasks"
            /\ server_result' = server_result
            /\ join_set' = Spawned(States(server_config))
    /\ UNCHANGED <<server_config, server_shutdown>>
    /\ ServerFrame

\* listen_for_shutdown_signals: SIGINT or SIGTERM cancels the token.
ServerShutdownSignal ==
    /\ server_run # "returned"
    /\ ~server_shutdown
    /\ server_shutdown' = TRUE
    /\ UNCHANGED <<server_config, server_run, join_set, server_result>>
    /\ ServerFrame

\* A shard server ends: with an error, or because the token is cancelled.
ShardServerEnds(shard) ==
    /\ shard \in DOMAIN join_set
    /\ shard # Collector
    /\ join_set[shard] = "running"
    /\ join_set' = [join_set EXCEPT ![shard] = "finished"]
    /\ UNCHANGED <<server_config, server_run, server_shutdown, server_result>>
    /\ ServerFrame

\* handles.collect::<()>(): ends once every server handle has been joined.
CollectorEnds ==
    /\ Collector \in DOMAIN join_set
    /\ join_set[Collector] = "running"
    /\ \A t \in DOMAIN join_set : t # Collector => join_set[t] = "finished"
    /\ join_set' = [join_set EXCEPT ![Collector] = "finished"]
    /\ UNCHANGED <<server_config, server_run, server_shutdown, server_result>>
    /\ ServerFrame

\* join_set.await_all_tasks().await, then Ok(()).
ServerAwaitAllTasks ==
    /\ server_run = "await_all_tasks"
    /\ AllTasksFinished(join_set)
    /\ server_run' = "returned"
    /\ server_result' = "ok"
    /\ UNCHANGED <<server_config, join_set, server_shutdown>>
    /\ ServerFrame

ServerNext ==
    \/ ServerRun
    \/ ServerShutdownSignal
    \/ \E shard \in ShardIds(MaxShards) : ShardServerEnds(shard)
    \/ CollectorEnds
    \/ ServerAwaitAllTasks

SpecServer == ServerInit /\ [][ServerNext]_vars

\* The shard servers that were started.
Started == DOMAIN join_set \ {Collector}

\* The shards the command line selects.
Selected ==
    IF server_config.shard = NoShard
    THEN {s \in 0 .. MaxShards : s < server_config.num_shards}
    ELSE {server_config.shard}

\* C34: with the Simple or the clear-text gRPC protocol run starts a
\* shard server for exactly the selected shards; with gRPC over TLS it
\* fails without starting any; and it returns Ok only after every task
\* it spawned has finished.
C34_RunStartsSelectedShards ==
    /\ server_run = "start" => Started = {}
    /\ (server_run # "start" /\ server_config.protocol # "GrpcTls") =>
           Started = Selected
    /\ (server_run # "start" /\ server_config.protocol = "GrpcTls") =>
           /\ server_result = "err"
           /\ Started = {}
    /\ server_result = "ok" =>
           \A t \in DOMAIN join_set : join_set[t] = "finished"
    /\ server_result = "err" => server_config.protocol = "GrpcTls"

\* run returned Ok after the one selected shard of several ended.
C34_Witness ==
    /\ server_result = "ok"
    /\ server_config.num_shards = MaxShards
    /\ server_config.shard # NoShard
    /\ Started = {server_config.shard}

\* C35: no benchmark task panics: whenever compute_quantile succeeds on
\* the interval diff of a validator, that diff has the two buckets the
\* read of its last finite boundary needs, and the watcher goes on.
C35_LastBoundaryInBounds ==
    (/\ CheckOver
     /\ LastHistogram.tag = "Ok"
     /\ LastDiff.tag = "Ok"
     /\ last_p99[health_index].tag = "Ok")
    => /\ Len(LastDiff.buckets) >= 2
       /\ health_result # "panic"
       /\ metrics_watcher # "panicked"

\* The step is the loop iteration of validators_healthy for validator v,
\* the interval diff of v has data, its p99 is at most the threshold and
\* the health check goes on to the next validator or returns Ok(true).
FoundHealthyWithData(v) ==
    /\ metrics_watcher = "checking"
    /\ health_index = v
    /\ last_p99[v] = NotComputed
    /\ last_p99'[v].tag = "Ok"
    /\ ~Exceeds(last_p99'[v], PROXY_LATENCY_P99_THRESHOLD)
    /\ health_result' \in {"pending", "Ok(true)"}

\* C39: a validator found healthy with data has the snapshot just scraped
\* stored as its previous snapshot, and a stored snapshot changes in no
\* other step; so the next interval diff of a validator is taken against
\* the last scrape with which it was found healthy with data (or against
\* the first scrape of the watcher).
C39_SnapshotFollowsHealthyScrape ==
    [][\A v \in Validators :
          /\ FoundHealthyWithData(v) =>
                 previous_histogram_snapshots'[v] = parse_histogram(last_scrape')
          /\ previous_histogram_snapshots'[v] # previous_histogram_snapshots[v] =>
                 FoundHealthyWithData(v)
      ]_vars

\* The second validator was found healthy with data and its stored
\* snapshot is no longer the first one.
C39_Witness ==
    /\ health_result = "Ok(true)"
    /\ last_p99[1].tag = "Ok"
    /\ last_p99[0].tag = "NoDataYetForP99Calculation"
    /\ previous_histogram_snapshots[1] = parse_histogram(last_scrape)
    /\ previous_histogram_snapshots[1].count > 0

\* The worker's handlers of block proposals and of certificates.
WorkerHandlers ==
    {"handle_block_proposal", "fully_handle_certificate_with_notifications"}

\* The last request is a block proposal or a certificate for which the
\* worker's handler was invoked and returned BlobsNotFound.
WorkerMissesBlobs ==
    /\ request.kind # "chain_info_query"
    /\ request.outcome = "BlobsNotFound"
    /\ response.reply.worker_calls \cap WorkerHandlers # {}

\* C36: when the worker was invoked for a block proposal or a certificate
\* and returned BlobsNotFound, the client receives that BlobsNotFound
\* error, whatever the fault type of the validator.
C36_BlobsNotFoundPassedOn ==
    WorkerMissesBlobs =>
        /\ response.reply.tag = "Err"
        /\ response.reply.error = "BlobsNotFound"

\* A validator that withholds its validation votes reports the blobs its
\* worker misses for a block proposal.
C36_Witness ==
    /\ WorkerMissesBlobs
    /\ response.fault = "DontSendValidateVote"
    /\ request.kind = "block_proposal"
    /\ response.reply.error = "BlobsNotFound"

\* The response is the worker's result: Ok, or the worker's error.
TakenFromWorker ==
    \/ response.reply.tag = "Ok"
    \/ response.reply.tag = "Err" /\ response.reply.error \in WorkerOutcomes

\* C37: the `expect` on the optional worker result never fails: no
\* request ends in a panic, and a response taken from the worker result
\* comes from a worker that was invoked for the request.
C37_ExpectNeverFails ==
    /\ response.reply.tag # "panic"
    /\ (request.kind # "chain_info_query" /\ TakenFromWorker) =>
           response.reply.worker_calls # {}

\* A validator that does not process validated certificates answers a
\* confirmed certificate with the result of its worker.
C37_Witness ==
    /\ response.fault = "DontProcessValidated"
    /\ request.kind = "confirmed_certificate"
    /\ response.reply.tag = "Ok"
    /\ "fully_handle_certificate_with_notifications" \in response.reply.worker_calls

\* ------------------------------------------------------------------
\* make_benchmark_block_info (benchmark.rs).  Chain ids and owners are
\* numbers; AccountOwner::CHAIN is the owner 0.
\* ------------------------------------------------------------------
ChainOwner == 0

\* Operation::system(SystemOperation::Transfer {owner, recipient, amount}).
SystemTransfer(owner, recipient_chain_id, amount) ==
    [application_id |-> "None", owner |-> owner, chain_id |-> recipient_chain_id,
     receiver |-> ChainOwner, amount |-> amount]

\* fungible_transfer(application_id, chain_id, sender, receiver, amount):
\* the user operation that carries FungibleOperation::Transfer.
fungible_transfer(application_id, chain_id, sender, receiver, amount) ==
    [application_id |-> application_id, owner |-> sender, chain_id |-> chain_id,
     receiver |-> receiver, amount |-> amount]

\* The chain after chain i in the group.
RecipientIndexNext(i, chains_len) == (i + 1) % chains_len

\* (i + chains_len - 1) % chains_len: the chain before chain i in the group.
RecipientIndex(i, chains_len) == (i + chains_len - 1) % chains_len

\* The body of the inner loop for the chain at index i (from 0) of a group.
BlockInfo(chains, i, transactions_per_block, fungible_application_id) ==
    LET chains_len == Len(chains)
        amount == 1
        owner == chains[i + 1].owner
        recipient_chain_id == chains[RecipientIndex(i, chains_len) + 1].chain_id
        operation ==
            IF fungible_application_id # "None"
            THEN fungible_transfer(fungible_application_id, recipient_chain_id,
                                   owner, owner, amount)
            ELSE SystemTransfer(ChainOwner, recipient_chain_id, amount)
    IN [operations |-> [t \in 1 .. transactions_per_block |-> operation],
        owner |-> owner]

make_benchmark_block_info(benchmark_chains, transactions_per_block, fungible_application_id) ==
    [g \in 1 .. Len(benchmark_chains) |->
        [k \in 1 .. Len(benchmark_chains[g]) |->
            BlockInfo(benchmark_chains[g], k - 1, transactions_per_block,
                      fungible_application_id)]]

\* The chains of a benchmark: group g has the chains 10 g + 1, 10 g + 2,
\* ..., each with an owner of its own.
BenchmarkGroup(g, n) ==
    [k \in 1 .. n |-> [chain_id |-> 10 * g + k, owner |-> 100 + 10 * g + k]]

BenchmarkChains ==
    UNION {{[g \in 1 .. groups |-> BenchmarkGroup(g, sizes[g])] :
               sizes \in [1 .. groups -> 0 .. MaxChainsPerGroup]} :
           groups \in 1 .. MaxInfoGroups}

InfoInit ==
    /\ ConfInit(1, 0, {"None"}) /\ TaskInit /\ HistInit /\ ValidatorIdle /\ TasksIdle
    /\ BlocksIdle /\ ManagerIdle /\ BuilderIdle /\ ShardsIdle /\ ServerIdle
    /\ \E benchmark_chains \in BenchmarkChains,
          transactions_per_block \in 0 .. MaxTransactions,
          fungible_application_id \in {"None", "application"} :
           block_info_arguments =
               BlockInfoArguments(benchmark_chains, transactions_per_block,
                                  fungible_application_id)
    /\ blocks_infos = BlocksInfos("none", << >>)

MakeBenchmarkBlockInfo ==
    /\ blocks_infos.tag = "none"
    /\ blocks_infos' =
           BlocksInfos("ok",
               make_benchmark_block_info(block_info_arguments.benchmark_chains,
                                         block_info_arguments.transactions_per_block,
                                         block_info_arguments.fungible_application_id))
    /\ UNCHANGED <<block_info_arguments, benchVars, shutdown_notifier, metrics_watcher,
                   histVars, validatorVars, taskVars, blocksVars, managerVars,
                   builderVars, shardVars, serverVars>>

InfoNext == MakeBenchmarkBlockInfo

SpecBlockInfo == InfoInit /\ [][InfoNext]_vars

\* The chains to which the block of the k-th chain of group g transfers.
RecipientsOf(g, k) ==
    {blocks_infos.infos[g][k].operations[t].chain_id :
        t \in 1 .. Len(blocks_infos.infos[g][k].operations)}

\* The chain before the k-th chain of a group of n chains, counting k from 1.
Before(k, n) == IF k = 1 THEN n ELSE k - 1

====
